---- MODULE Spec2Model ----
(***************************************************************************)
(* The Kronos Belt Prospector: the App screen state machine (App.tsx), the *)
(* station shop (StationInterface) and the per-frame game loop of          *)
(* GameCanvas, as one state machine.                                       *)
(*                                                                         *)
(* Numbers.  The source computes in IEEE doubles over a world of +/-5000   *)
(* units and tanks of 1000 fuel units; the model computes in integers over *)
(* a small world.  Every length, speed, rate and counter of the source is  *)
(* kept as a named definition whose value is scaled down (the source value *)
(* is given next to it); the order relations between them that the code    *)
(* relies on are kept (launch offset > docking range, stop speed < dock    *)
(* speed <= launch push <= max speed, spawn distance > drain range, ...).  *)
(* A multiplication by a decimal factor is done in integers and truncated  *)
(* toward zero (Trunc), a comparison of two distances or speeds is done on *)
(* their squares.                                                          *)
(*                                                                         *)
(* Inputs.  keysRef and mouseRef are written by DOM event handlers between *)
(* frames and only sampled by the loop, so a frame draws them with \E.     *)
(* Math.random() draws are inputs of the frame as well.                    *)
(***************************************************************************)
EXTENDS Integers, Sequences, FiniteSets, TLC

\* ------------------------------------------------------------ scaled world
\* lengths (world units in the source)
DOCKING_RANGE == 4            \* 200
LaunchOffset == 5             \* 220: handleLaunch / handleRestart position.y
StartOffset == 2              \* 100: initial playerState position (x and y)
LOOT_COLLECTION_RANGE == 2    \* 60
ASTEROID_SPAWN_RADIUS == 7    \* 600
DRAIN_RANGE == 5              \* 300
SpawnDist == 6                \* Math.max(width, height) * 1.2
AimAssist == 2                \* 50
NoseOffset == 1               \* 30
InitMiningRange == 3          \* 350
\* speeds (world units per frame in the source)
StopSpeed == 1                \* 0.1
DockSpeed == 2                \* 0.5
DockSpeedOuter == 3           \* 2
LaunchPush == 2               \* 1
InitAcceleration == 2         \* 0.15
InitMaxSpeed == 3             \* 8
ALIEN_SPEED == 2              \* 3.0
AlienAccel == 1               \* 0.1
\* fuel, in units of the idle drain
FuelRate == 1                 \* fuelConsumptionRate 0.05
HalfThrustRate == 1           \* thrustConsumptionRate 0.5 is twice this
InitMaxFuel == 12             \* 1000
\* counters
InitMiningPower == 1          \* 1.5
AsteroidHealth == 2           \* 100
ALIEN_HP == 2                 \* 300
DRAIN_INTERVAL == 2           \* 45
LOOT_DESPAWN_TIME == 3        \* 1800
InitMaxCargo == 3             \* 20
NumAsteroids == 2             \* 150
\* upgrade steps of the shop buttons
AccelerationStep == 1         \* 0.02
CargoStep == 1                \* 10
MiningPowerStep == 1          \* 0.5
FuelStep == 2                 \* 200
\* exploration bounds
MaxLaunches == 2              \* launches and restarts explored
MaxUpgrades == 3              \* upgrade steps explored per stat

\* ------------------------------------------------------- program constants
UPGRADE_COST_BASE == 200
LootDivisor == 5

MineralType == {"Iron", "Silicon", "Gold", "Kronos Crystal"}

MINERAL_VALUES ==
  [t \in MineralType |->
     CASE t = "Iron" -> 10
       [] t = "Silicon" -> 25
       [] t = "Gold" -> 100
       [] t = "Kronos Crystal" -> 500]

STATION_POSITION == [x |-> 0, y |-> 0]

INITIAL_SHIP_CONFIG ==
  [maxFuel |-> InitMaxFuel,
   fuelConsumptionRate |-> FuelRate,
   thrustConsumptionRate |-> 2 * HalfThrustRate,
   maxCargo |-> InitMaxCargo,
   acceleration |-> InitAcceleration,
   maxSpeed |-> InitMaxSpeed,
   rotationSpeed |-> 1,
   miningPower |-> InitMiningPower,
   miningRange |-> InitMiningRange]

EmptyCargo == [t \in MineralType |-> 0]

\* ------------------------------------------------------------- arithmetic
Abs(a) == IF a < 0 THEN -a ELSE a

\* a / b rounded toward zero
Trunc(a, b) == IF a >= 0 THEN a \div b ELSE -((-a) \div b)

\* Math.sqrt rounded up to the next integer
CeilSqrt(n) == CHOOSE r \in 0..n : r * r >= n /\ (r = 0 \/ (r - 1) * (r - 1) < n)

\* Math.sqrt rounded down
FloorSqrt(n) == CHOOSE r \in 0..n : r * r <= n /\ (r + 1) * (r + 1) > n

\* rotation counts quarter turns (rotationSpeed is one quarter turn)
Cos(r) == CASE r % 4 = 0 -> 1 [] r % 4 = 1 -> 0 [] r % 4 = 2 -> -1 [] r % 4 = 3 -> 0
Sin(r) == CASE r % 4 = 0 -> 0 [] r % 4 = 1 -> 1 [] r % 4 = 2 -> 0 [] r % 4 = 3 -> -1

Dist2(ax, ay, bx, by) == (ax - bx) * (ax - bx) + (ay - by) * (ay - by)

CargoTotal(cargo) ==
  cargo["Iron"] + cargo["Silicon"] + cargo["Gold"] + cargo["Kronos Crystal"]

\* ------------------------------------------------------------------ state
VARIABLES
  gameState,    \* App: START, PLAYING, DOCKED, GAMEOVER
  playerState,  \* App playerState; shipRef.current is this very object
  asteroids,    \* asteroidsRef.current, in array order
  alien,        \* alienRef.current, or NoAlien
  loot,         \* lootRef.current, in array order
  lootSerial,   \* identities handed to the Loot objects created this mission
  looping,      \* a requestAnimationFrame callback of the loop is pending
  frame,        \* what the last run of loop() did (its locals and callbacks)
  finalState,   \* the argument of the last onDock call
  mission,      \* history: cargo and credits when the mission began, laser use
  launches,     \* launches from the station so far
  sound,        \* soundManagerRef.current: the continuous cues of SoundManager
  effects       \* shakeRef, particlesRef and the asteroids' isHeating, rotation

vars == <<gameState, playerState, asteroids, alien, loot, lootSerial, looping,
          frame, finalState, mission, launches, sound, effects>>

NoAlien == [exists |-> FALSE]
NoState == [none |-> TRUE]

NoFrame ==
  [ran |-> FALSE, thrusting |-> FALSE, laser |-> FALSE, miningTarget |-> 0,
   attackingAlien |-> FALSE, drainTick |-> FALSE, stolen |-> "none",
   collected |-> {},
   cargoFull |-> FALSE, event |-> "none", rendered |-> FALSE,
   overlap |-> FALSE, dropped |-> <<>>,
   sparks |-> 0, debris |-> 0, timed |-> FALSE, count |-> 0,
   precap |-> [x |-> 0, y |-> 0], scene |-> [none |-> TRUE],
   thrustKey |-> FALSE, mouseDown |-> FALSE]

\* useState initial value of playerState
InitialPlayerState ==
  [credits |-> 0,
   currentFuel |-> INITIAL_SHIP_CONFIG.maxFuel,
   cargo |-> EmptyCargo,
   shipConfig |-> INITIAL_SHIP_CONFIG,
   position |-> [x |-> STATION_POSITION.x + StartOffset,
                 y |-> STATION_POSITION.y + StartOffset],
   velocity |-> [x |-> 0, y |-> 0],
   rotation |-> 3]

\* the asteroid field of the initialization effect: asteroid i of the array
AsteroidType(i) == IF i % 2 = 1 THEN "Gold" ELSE "Iron"

\* radius: 20 + Math.random() * 40 in the source; here all asteroids yield the
\* same Loot amount
AsteroidRadius == LootDivisor * 2

\* an initialization effect that keeps the array it finds
SurvivingAsteroids == asteroids

GenerateAsteroids ==
  [i \in 1..NumAsteroids |->
     [id |-> i,
      x |-> 0,
      y |-> ASTEROID_SPAWN_RADIUS + (i - 1),
      radius |-> AsteroidRadius,
      type |-> AsteroidType(i),
      health |-> AsteroidHealth,
      maxHealth |-> AsteroidHealth]]


\* ------------------------------------------------------------ frame inputs
\* keysRef: rotate left, rotate right, thrust; spark is the frame's draw for
\* the hit particle of the laser (1: Math.random() > 0.5)
Keys == {[left |-> FALSE, right |-> FALSE, thrust |-> FALSE, spark |-> 0],
         [left |-> FALSE, right |-> FALSE, thrust |-> TRUE, spark |-> 0]}

\* keysRef of a pilot who also steers to the left
SteerKeys == [left : BOOLEAN, right : {FALSE}, thrust : BOOLEAN, spark : {0}]

\* keysRef of a pilot who leaves the keys alone, with both draws of the hit
\* particle
IdleKeys == [left : {FALSE}, right : {FALSE}, thrust : {FALSE}, spark : {0, 1}]

\* mouseRef, as an offset from the centre of the viewport: the camera is the
\* ship position minus half the viewport, so worldMouse = ship position + offset
Mouse == {[isDown |-> FALSE, x |-> 0, y |-> 0],
          [isDown |-> TRUE, x |-> 0, y |-> 2],
          [isDown |-> TRUE, x |-> 0, y |-> -2],
          [isDown |-> TRUE, x |-> 0, y |-> -9]}

\* Math.random() draws of one frame: alien spawn (and its angle, in quarter
\* turns) and the velocity kick of the loot created in the frame
SpawnAngles == {3}
NoSpawn == [spawn |-> FALSE, angle |-> 0]
SpawnDraws == {NoSpawn} \cup {[spawn |-> TRUE, angle |-> a] : a \in SpawnAngles}
LootKicks == {-1, 1}

\* --------------------------------------------------------- ship physics
\* Friction: velocity *= 0.99
Drag(v) == Trunc(v * 99, 100)

\* a pass that leaves every velocity as it is
CapSpeedNever(vx, vy, maxSpeed) == [x |-> vx, y |-> vy]

\* Cap speed: velocity / speed * maxSpeed when speed > maxSpeed
CapSpeed(vx, vy, maxSpeed) ==
  LET speed2 == vx * vx + vy * vy
  IN IF speed2 > maxSpeed * maxSpeed
     THEN [x |-> Trunc(vx * maxSpeed, CeilSqrt(speed2)),
           y |-> Trunc(vy * maxSpeed, CeilSqrt(speed2))]
     ELSE [x |-> vx, y |-> vy]

\* Rotation, Thrust, Friction, Cap speed, Update Position
\* a thrust step that does not look at the tank
CanThrustAlways(ship) == TRUE

\* isThrusting && ship.currentFuel > 0
CanThrust(ship) == ship.currentFuel > 0

ShipPhysics(ship, keys) ==
  LET cfg == ship.shipConfig
      rot == (ship.rotation
                - (IF keys.left THEN cfg.rotationSpeed ELSE 0)
                + (IF keys.right THEN cfg.rotationSpeed ELSE 0)) % 4
      thrusting == keys.thrust /\ CanThrust(ship)
      vx1 == IF thrusting THEN ship.velocity.x + Cos(rot) * cfg.acceleration
             ELSE ship.velocity.x
      vy1 == IF thrusting THEN ship.velocity.y + Sin(rot) * cfg.acceleration
             ELSE ship.velocity.y
      fuel1 == IF thrusting THEN ship.currentFuel - cfg.thrustConsumptionRate
               ELSE ship.currentFuel
      vx2 == Drag(vx1)
      vy2 == Drag(vy1)
      speed2 == vx2 * vx2 + vy2 * vy2
      vx3 == CapSpeed(vx2, vy2, cfg.maxSpeed).x
      vy3 == CapSpeed(vx2, vy2, cfg.maxSpeed).y
  IN [ship |-> [ship EXCEPT !.rotation = rot,
                            !.velocity = [x |-> vx3, y |-> vy3],
                            !.currentFuel = fuel1,
                            !.position = [x |-> ship.position.x + vx3,
                                          y |-> ship.position.y + vy3]],
      thrusting |-> thrusting,
      precap |-> [x |-> vx2, y |-> vy2],
      speed2 |-> speed2]

\* an idle step that adds the idle rate instead of subtracting it
IdleRegeneration(ship) ==
  [ship EXCEPT !.currentFuel = ship.currentFuel + ship.shipConfig.fuelConsumptionRate]

\* an idle step that drains at the thrust rate
IdleConsumptionAtThrustRate(ship) ==
  [ship EXCEPT !.currentFuel = ship.currentFuel - ship.shipConfig.thrustConsumptionRate]

\* a ship that burns nothing while idle
IdleConsumptionNone(ship) == ship

\* Idle Fuel Consumption
IdleConsumption(ship) ==
  [ship EXCEPT !.currentFuel = ship.currentFuel - ship.shipConfig.fuelConsumptionRate]

\* a check that ends the mission as soon as the tank is empty
GameOverAtOnce(ship) == TRUE

\* Game Over Check (reached only with currentFuel <= 0)
\* a game over that leaves a ship at rest inside the docking range to the dock
GameOverCheckOffStation(ship) ==
  /\ Abs(ship.velocity.x) < StopSpeed /\ Abs(ship.velocity.y) < StopSpeed
  /\ Dist2(ship.position.x, ship.position.y, 0, 0) >= DOCKING_RANGE * DOCKING_RANGE

GameOverCheck(ship) ==
  Abs(ship.velocity.x) < StopSpeed /\ Abs(ship.velocity.y) < StopSpeed

\* a docking that keeps only the outer speed test
DockingCheckOuter(ship, speed2) ==
  /\ Dist2(ship.position.x, ship.position.y, 0, 0) < DOCKING_RANGE * DOCKING_RANGE
  /\ speed2 < DockSpeedOuter * DockSpeedOuter

\* Docking Logic; speed2 is the square of the speed computed before the cap
DockingCheck(ship, speed2) ==
  /\ Dist2(ship.position.x, ship.position.y, 0, 0) < DOCKING_RANGE * DOCKING_RANGE
  /\ speed2 < DockSpeedOuter * DockSpeedOuter
  /\ speed2 < DockSpeed * DockSpeed

\* ------------------------------------------------------------- alien
\* Spawn Alien: at SpawnDist from the ship, at rest, full hp, nothing stolen
\* a spawn draw made in every frame, the slot taken or not
SlotEmptyAlways(al) == TRUE

\* if (!alienRef.current)
SlotEmpty(al) == ~al.exists

SpawnAlien(ship, angle) ==
  [exists |-> TRUE,
   x |-> ship.position.x + Cos(angle) * SpawnDist,
   y |-> ship.position.y + Sin(angle) * SpawnDist,
   vx |-> 0, vy |-> 0,
   hp |-> ALIEN_HP, maxHp |-> ALIEN_HP,
   stolenCargo |-> <<>>,
   state |-> "CHASING",
   drainTimer |-> 0]

\* an alien that chases down to the full drain range only
BeyondDrainRange(dist2) == dist2 > DRAIN_RANGE * DRAIN_RANGE

\* dist > ALIEN_CONFIG.DRAIN_RANGE * 0.7, on the squares
BeyondHover(dist2) == 100 * dist2 > 49 * DRAIN_RANGE * DRAIN_RANGE

\* AI Movement and Speed Cap; the drain counter ticks while DRAINING in range.
\* attempt: the counter reached DRAIN_INTERVAL in this frame
\* a theft that waits one draining frame longer
DrainDueLate(timer) == timer > DRAIN_INTERVAL

\* if (alien.drainTimer >= ALIEN_CONFIG.DRAIN_INTERVAL)
DrainDue(timer) == timer >= DRAIN_INTERVAL

AlienMove(al, ship) ==
  LET dx == ship.position.x - al.x
      dy == ship.position.y - al.y
      dist2 == dx * dx + dy * dy
      chase == BeyondHover(dist2)
      vx1 == IF chase THEN al.vx + Trunc(dx * AlienAccel, FloorSqrt(dist2))
             ELSE Trunc(al.vx * 95, 100)
      vy1 == IF chase THEN al.vy + Trunc(dy * AlienAccel, FloorSqrt(dist2))
             ELSE Trunc(al.vy * 95, 100)
      st == IF chase THEN "CHASING" ELSE "DRAINING"
      sp2 == vx1 * vx1 + vy1 * vy1
      capped == sp2 > ALIEN_SPEED * ALIEN_SPEED
      vx2 == IF capped THEN Trunc(vx1 * ALIEN_SPEED, CeilSqrt(sp2)) ELSE vx1
      vy2 == IF capped THEN Trunc(vy1 * ALIEN_SPEED, CeilSqrt(sp2)) ELSE vy1
      draining == st = "DRAINING" /\ dist2 < DRAIN_RANGE * DRAIN_RANGE
      timer == IF draining THEN al.drainTimer + 1 ELSE al.drainTimer
      attempt == draining /\ DrainDue(timer)
  IN [alien |-> [al EXCEPT !.vx = vx2, !.vy = vy2,
                           !.x = al.x + vx2, !.y = al.y + vy2,
                           !.state = st,
                           !.drainTimer = IF attempt THEN 0 ELSE timer],
      attempt |-> attempt]

\* a theft that picks among all mineral types, held or not
AllTypes(cargo) == MineralType

\* availableTypes of Steal Cargo
AvailableTypes(cargo) == {t \in MineralType : cargo[t] > 0}

\* alien.stolenCargo[type] = (alien.stolenCargo[type] || 0) + 1; the keys of
\* stolenCargo are kept in insertion order
\* a theft whose unit never reaches the alien
AddStolenNothing(sc, t) == sc

\* alien.stolenCargo[typeToSteal] = (alien.stolenCargo[typeToSteal] || 0) + 1
AddStolen(sc, t) ==
  IF \E i \in 1..Len(sc) : sc[i].type = t
  THEN [i \in 1..Len(sc) |->
          IF sc[i].type = t THEN [sc[i] EXCEPT !.amount = sc[i].amount + 1]
          ELSE sc[i]]
  ELSE Append(sc, [type |-> t, amount |-> 1])

\* Transfer: one unit of typeToSteal from the ship to the alien
StealCargo(cargo, t) == [cargo EXCEPT ![t] = cargo[t] - 1]

StolenTotal(al) ==
  IF al.exists
  THEN LET sc == al.stolenCargo
           RECURSIVE Sum(_)
           Sum(i) == IF i = 0 THEN 0 ELSE sc[i].amount + Sum(i - 1)
       IN Sum(Len(sc))
  ELSE 0

\* -------------------------------------------------------- mining & combat
\* thrustConsumptionRate * 0.5
LaserCost(cfg) == Trunc(cfg.thrustConsumptionRate, 2)

\* 1. Check Alien Hit
AlienHit(al, ship, mx, my) ==
  LET lx == ship.position.x + Cos(ship.rotation) * NoseOffset
      ly == ship.position.y + Sin(ship.rotation) * NoseOffset
  IN /\ al.exists
     /\ Dist2(mx, my, al.x, al.y) < AimAssist * AimAssist
     /\ Dist2(al.x, al.y, lx, ly)
          < ship.shipConfig.miningRange * ship.shipConfig.miningRange

\* the cursor is inside the asteroid and the asteroid is in mining range
AsteroidHit(ast, ship, mx, my) ==
  /\ Dist2(mx, my, ast.x, ast.y) < ast.radius * ast.radius
  /\ Dist2(ast.x, ast.y, ship.position.x, ship.position.y)
       <= ship.shipConfig.miningRange * ship.shipConfig.miningRange

\* an asteroid search that does not look at attackingAlien
SearchAsteroidsAlways(attackingAlien) == TRUE

\* 2. Check Asteroids if not attacking alien
SearchAsteroids(attackingAlien) == ~attackingAlien

\* 2. Check Asteroids: index of the first asteroid of the array that is hit, or 0
MiningTarget(asts, ship, mx, my) ==
  LET hits == {i \in 1..Len(asts) : AsteroidHit(asts[i], ship, mx, my)}
  IN IF hits = {} THEN 0 ELSE CHOOSE i \in hits : \A j \in hits : i <= j

\* a destroyed alien that drops nothing
AlienLootNone(al, serial, kick) == <<>>

\* Drop stolen cargo: one Loot per stolen type with amount > 0
AlienLoot(al, serial, kick) ==
  LET sc == SelectSeq(al.stolenCargo, LAMBDA e : e.amount > 0)
  IN [i \in 1..Len(sc) |->
        [id |-> serial + i, x |-> al.x, y |-> al.y, vx |-> 0, vy |-> kick,
         type |-> sc[i].type, amount |-> sc[i].amount,
         life |-> LOOT_DESPAWN_TIME]]

\* the Loot of a destroyed asteroid: amount = floor(radius / 5)
AsteroidLoot(ast, serial, kick) ==
  [id |-> serial + 1, x |-> ast.x, y |-> ast.y, vx |-> 0, vy |-> kick,
   type |-> ast.type, amount |-> ast.radius \div LootDivisor,
   life |-> LOOT_DESPAWN_TIME]

\* particles pushed when an asteroid shatters (two loops) and when the alien
\* explodes
ShatterChunks == 8
ShatterDust == 15
AlienExplosion == 30

\* a laser whose power is rounded up to whole units of health
DamageWholeUnits(health, power) == health - 2 * ((power + 1) \div 2)

\* miningTarget.health -= miningPower
Damage(health, power) == health - power

\* a destruction that forgets to filter the asteroid out
RemoveNone(seq, i) == seq

\* asteroidsRef.current.filter(a => a !== miningTarget)
RemoveAt(seq, i) == [j \in 1..(Len(seq) - 1) |-> IF j < i THEN seq[j] ELSE seq[j + 1]]

\* ------------------------------------------------------------------ loot
\* one pass of lootRef.current.forEach over items i..Len(items): physics,
\* life--, and collection into cargo when in range and the cargo has room
\* currentCargoTotal + loot.amount <= ship.shipConfig.maxCargo
\* a collection that does not look at the capacity
HasRoomAlways(cargo, amount, maxCargo) == TRUE

HasRoom(cargo, amount, maxCargo) == CargoTotal(cargo) + amount <= maxCargo

\* a pass that fills the space left in the hold from a Loot too large for it
TrimLoot(item, space) == [item EXCEPT !.amount = IF space > 0 THEN @ - space ELSE @]

\* Full: the Loot is left as the physics step moved it
KeepLoot(item, space) == item

RECURSIVE LootPass(_, _, _, _, _, _)
LootPass(items, i, ship, cargo, collected, full) ==
  IF i > Len(items)
  THEN [loot |-> items, cargo |-> cargo, collected |-> collected, full |-> full]
  ELSE LET l == items[i]
           x1 == l.x + l.vx
           y1 == l.y + l.vy
           moved == [l EXCEPT !.x = x1, !.y = y1,
                              !.vx = Trunc(l.vx * 95, 100),
                              !.vy = Trunc(l.vy * 95, 100),
                              !.life = l.life - 1]
           near == Dist2(ship.position.x, ship.position.y, x1, y1)
                     < LOOT_COLLECTION_RANGE * LOOT_COLLECTION_RANGE
           room == HasRoom(cargo, l.amount, ship.shipConfig.maxCargo)
       IN IF near /\ room
          THEN LootPass([items EXCEPT ![i] = [moved EXCEPT !.life = 0]], i + 1, ship,
                        [cargo EXCEPT ![l.type] = cargo[l.type] + l.amount],
                        collected \cup {l.id}, full)
          ELSE LootPass([items EXCEPT ![i] =
                           IF near
                           THEN KeepLoot(moved, ship.shipConfig.maxCargo - CargoTotal(cargo))
                           ELSE moved],
                        i + 1, ship, cargo, collected, full \/ near)

\* a loot pass that forgets to filter the dead Loot out
AllLoot(items) == items

\* lootRef.current.filter(l => l.life > 0)
LiveLoot(items) == SelectSeq(items, LAMBDA l : l.life > 0)

\* --------------------------------------------------------- the effects
\* shakeRef.current in hundredths, the asteroids with isHeating set, the
\* number of times the asteroids were rotated, and the life of each Particle
\* of particlesRef.current in array order; they are followed only where on
\* is TRUE
NoEffects(on) ==
  [on |-> on, shake |-> 0, heating |-> {}, turns |-> 0, particles |-> <<>>]

\* Shake Decay: shakeRef.current *= 0.9, 0 below 0.5
ShakeDecay(fx) ==
  IF fx.shake > 0
  THEN LET s == (fx.shake * 9) \div 10
       IN [fx EXCEPT !.shake = IF s < 50 THEN 0 ELSE s]
  ELSE fx

\* shakeRef.current = Math.max(shakeRef.current, s)
RaiseShake(fx, s) == [fx EXCEPT !.shake = IF @ > s THEN @ ELSE s]

\* particlesRef.current.push, once for each life of lives
Emit(fx, lives) == [fx EXCEPT !.particles = @ \o lives]

Burst(n, life) == [k \in 1..n |-> life]

\* Math.random() of the life of the particles of an explosion, as a share of
\* its range in twentieths
BurstDraws == IF effects.on THEN {0, 19} ELSE {0}

\* a render pass that draws the particles without moving or aging them
RenderPassParticlesAtRest(fx) == [fx EXCEPT !.turns = @ + 1, !.heating = {}]

\* the mutations of the Rendering section: Draw Asteroids rotates every
\* asteroid and clears isHeating, Draw Particles moves and ages every
\* Particle and drops the ones whose life has run out
RenderPass(fx) ==
  LET aged == [k \in 1..Len(fx.particles) |-> fx.particles[k] - 1]
  IN [fx EXCEPT !.turns = @ + 1,
                !.heating = {},
                !.particles = SelectSeq(aged, LAMBDA l : l > 0)]

\* what the Rendering section starts from
Scene(fx, ship, asts, al, items) ==
  IF effects.on
  THEN [none |-> FALSE, fx |-> fx, ship |-> ship, asteroids |-> asts,
        alien |-> al, loot |-> items]
  ELSE [none |-> TRUE]

\* ------------------------------------------------------- SoundManager
\* the continuous cues: thrust (thrustSource, thrustGain), laser (laserOsc,
\* laserGain, laserLfo) and alien hum (alienHumOsc, alienHumGain)
Cues == {"thrust", "laser", "hum"}

\* ref: the nodes the manager's fields refer to, {} when they are null;
\* live: nodes started and not stopped; timers: nodes a pending setTimeout of
\* a stop will stop and disconnect; made: nodes created so far
SilentCue == [ref |-> {}, live |-> {}, timers |-> {}, made |-> 0]

\* new SoundManager(); graph tells whether the audio nodes are followed (live,
\* timers, made, last) or only the manager's fields (ref)
NewSoundManager(graph) ==
  [graph |-> graph, last |-> <<"new">>, cue |-> [c \in Cues |-> SilentCue]]

\* a start that does not look at the field
StartCueAlways(sm, c) ==
  LET q == sm.cue[c]
  IN [sm EXCEPT !.last = <<"start", c, q.ref # {}>>,
                !.cue[c] = [q EXCEPT !.ref = {q.made + 1},
                                     !.live = q.live \cup {q.made + 1},
                                     !.made = q.made + 1]]

\* startThrust, startLaser, startAlienHum: return if the field is set, else
\* create the nodes, start them and set the fields
StartCue(sm, c) ==
  LET q == sm.cue[c]
  IN IF ~sm.graph
     THEN [sm EXCEPT !.cue[c].ref = {1}]
     ELSE IF q.ref # {}
          THEN [sm EXCEPT !.last = <<"start", c, TRUE>>]
          ELSE [sm EXCEPT !.last = <<"start", c, FALSE>>,
                          !.cue[c] = [q EXCEPT !.ref = {q.made + 1},
                                               !.live = q.live \cup {q.made + 1},
                                               !.made = q.made + 1]]

\* stopThrust, stopLaser, stopAlienHum: if the field is set, hand the nodes
\* to a setTimeout that will stop and disconnect them, and null the fields
StopCue(sm, c) ==
  LET q == sm.cue[c]
  IN IF ~sm.graph
     THEN [sm EXCEPT !.cue[c].ref = {}]
     ELSE IF q.ref # {}
          THEN [sm EXCEPT !.last = <<"stop", c, TRUE>>,
                          !.cue[c] = [q EXCEPT !.ref = {},
                                               !.timers = q.timers \cup q.ref]]
          ELSE [sm EXCEPT !.last = <<"stop", c, FALSE>>]

\* a game over that stops the laser and the thrust and forgets the hum
StopAllButHum(sm) == StopCue(StopCue(sm, "laser"), "thrust")

\* the three stops of the game-over branch and of the effect's cleanup
StopAll(sm) == StopCue(StopCue(StopCue(sm, "laser"), "thrust"), "hum")

\* a callback that stops what the manager's field refers to when it runs
ReleaseCurrent(sm, c, n) ==
  LET q == sm.cue[c]
  IN [sm EXCEPT !.last = <<"timer", c, q.ref # {}>>,
                !.cue[c].live = @ \ (q.ref \cup {n}),
                !.cue[c].timers = @ \ {n}]

\* the setTimeout callback of a stop: oldSource.stop(), disconnect
ReleaseNode(sm, c, n) ==
  [sm EXCEPT !.last = <<"timer", c, n \in sm.cue[c].ref>>,
             !.cue[c].live = @ \ {n},
             !.cue[c].timers = @ \ {n}]

\* ------------------------------------------------------------ the loop
\* history of the mission under way: the player state it began with, whether
\* the laser has hit anything, whether the alien has stolen anything, the
\* identities of the Loot collected, and whether the mission began with a
\* restart that discarded an upgraded ship
BeginMission(ps) ==
  [cargo |-> ps.cargo, credits |-> ps.credits, fuel |-> ps.currentFuel,
   fired |-> FALSE, robbed |-> FALSE, collected |-> {}, upgradesLost |-> FALSE]

MissionAfter(fr) ==
  [mission EXCEPT !.fired = @ \/ fr.laser,
                  !.robbed = @ \/ fr.stolen # "none",
                  !.collected = @ \cup fr.collected]

\* a game over that goes back to the title screen
handleGameOverToStart == "START"

\* handleGameOver: setGameState(GameState.GAMEOVER)
handleGameOver == "GAMEOVER"

\* a docking that loses the hold
DockedWithoutCargo(fs) ==
  [fs EXCEPT !.velocity = [x |-> 0, y |-> 0],
             !.position = [x |-> STATION_POSITION.x, y |-> STATION_POSITION.y],
             !.cargo = EmptyCargo]

\* handleDock: snap to the station centre, at rest
Docked(fs) ==
  [fs EXCEPT !.velocity = [x |-> 0, y |-> 0],
             !.position = [x |-> STATION_POSITION.x, y |-> STATION_POSITION.y]]

\* a callback that went on to requestAnimationFrame(loop) after the dock or
\* game-over callback
ScheduledAfterCallback == TRUE

\* onDock(ship); return and onGameOver(); return: the callback ends before it
\* reaches requestAnimationFrame(loop), and the effect's cleanup cancels the
\* last id: no callback of the loop is pending
PendingAfterCallback == FALSE

\* Loot Logic, Docking Logic and Rendering: the end of loop() after combat
FrameEnd(ship, speed2, asts, al, items, serial, fr, sm, fx) ==
  \E pass \in {LootPass(items, 1, ship, ship.cargo, {}, FALSE)} :
  LET ship1 == [ship EXCEPT !.cargo = pass.cargo]
      live == LiveLoot(pass.loot)
      fr1 == [fr EXCEPT !.collected = pass.collected, !.cargoFull = pass.full]
      \* Visual Feedback (Floating Text) of each Loot collected
      fx1 == Emit(fx, Burst(Cardinality(pass.collected), 60))
  IN IF DockingCheck(ship1, speed2)
     THEN \* onDock(ship); return: handleDock, then the initialization effect
          \* runs again for the new playerState object
          /\ playerState' = Docked(ship1)
          /\ finalState' = ship1
          /\ gameState' = "DOCKED"
          /\ asteroids' = GenerateAsteroids
          /\ alien' = NoAlien
          /\ loot' = <<>>
          /\ lootSerial' = 0
          /\ looping' = PendingAfterCallback
          /\ frame' = [fr1 EXCEPT !.event = "dock"]
          /\ mission' = MissionAfter(fr1)
          /\ sound' = NewSoundManager(sm.graph)
          /\ effects' = NoEffects(effects.on)
          /\ UNCHANGED launches
     ELSE \* Rendering, then requestAnimationFrame(loop)
          /\ playerState' = ship1
          /\ asteroids' = asts
          /\ alien' = al
          /\ loot' = live
          /\ lootSerial' = serial
          /\ frame' = [fr1 EXCEPT !.rendered = TRUE,
                                  !.scene = Scene(fx1, ship1, asts, al, live)]
          /\ mission' = MissionAfter(fr1)
          /\ sound' = sm
          /\ effects' = IF effects.on THEN RenderPass(fx1) ELSE effects
          /\ UNCHANGED <<gameState, finalState, looping, launches>>

\* a laser that fires whenever the button is held
LaserActiveOnEmptyTank(mouse, ship) == mouse.isDown

\* if (mouseRef.current.isDown && ship.currentFuel > 0)
LaserActive(mouse, ship) == mouse.isDown /\ ship.currentFuel > 0

\* Mining & Combat Logic
Combat(ship, speed2, al, fr, sm, fx) ==
  \E mouse \in Mouse :
   \E active \in {LaserActive(mouse, ship)} :
   \E attackingAlien \in {active /\ AlienHit(al, ship, ship.position.x + mouse.x,
                                              ship.position.y + mouse.y)} :
   \E target \in {IF active /\ SearchAsteroids(attackingAlien)
                  THEN MiningTarget(asteroids, ship, ship.position.x + mouse.x,
                                    ship.position.y + mouse.y)
                  ELSE 0} :
    LET mx == ship.position.x + mouse.x
        my == ship.position.y + mouse.y
        power == ship.shipConfig.miningPower
        \* each branch charges the laser where it applies its damage
        ship1 == [ship EXCEPT !.currentFuel =
                    @ - (IF attackingAlien THEN LaserCost(ship.shipConfig) ELSE 0)
                      - (IF target # 0 THEN LaserCost(ship.shipConfig) ELSE 0)]
        hp1 == IF attackingAlien THEN Damage(al.hp, power) ELSE 0
        alienDead == attackingAlien /\ hp1 <= 0
        health1 == IF target # 0 THEN Damage(asteroids[target].health, power) ELSE 0
        astDead == target # 0 /\ health1 <= 0
        fr1 == [fr EXCEPT !.laser = attackingAlien \/ target # 0,
                          !.attackingAlien = attackingAlien,
                          \* the button, noted while the frames are counted
                          !.mouseDown = fr.timed /\ mouse.isDown,
                          !.miningTarget = IF target # 0 THEN asteroids[target].id ELSE 0,
                          !.overlap = active /\ MiningTarget(asteroids, ship, mx, my) # 0]
        \* startLaser on a hit, stopAlienHum when the alien is destroyed,
        \* stopLaser when nothing is hit
        sm1 == IF attackingAlien THEN StartCue(sm, "laser") ELSE sm
        sm2 == IF alienDead THEN StopCue(sm1, "hum") ELSE sm1
        sm3 == IF target # 0 THEN StartCue(sm2, "laser") ELSE sm2
        sm4 == IF target = 0 /\ ~attackingAlien THEN StopCue(sm3, "laser") ELSE sm3
    IN \E kick \in (IF alienDead \/ astDead THEN LootKicks ELSE {0}),
          draw \in (IF alienDead \/ astDead THEN BurstDraws ELSE {0}) :
         LET \* alien hit: shake, Hit particles, and the explosion
             fx1 == IF attackingAlien
                    THEN Emit(RaiseShake(fx, 200), Burst(fr.sparks, 20))
                    ELSE fx
             fx2 == IF alienDead
                    THEN Emit([fx1 EXCEPT !.shake = 2000],
                              Burst(AlienExplosion, 40 + (30 * draw + 19) \div 20))
                    ELSE fx1
             \* asteroid hit: isHeating, shake, Hit particles, and the shatter
             fx3 == IF target # 0
                    THEN Emit(RaiseShake([fx2 EXCEPT !.heating = @ \cup {asteroids[target].id}],
                                         200),
                              Burst(fr.sparks, 15))
                    ELSE fx2
             fx4 == IF astDead
                    THEN Emit(Emit([fx3 EXCEPT !.shake = 1500,
                                               !.heating = @ \ {asteroids[target].id}],
                                   Burst(ShatterChunks, 60 + (40 * draw + 19) \div 20)),
                              Burst(ShatterDust, 30 + (20 * draw + 19) \div 20))
                    ELSE fx3
             al1 == IF alienDead THEN NoAlien
                    ELSE IF attackingAlien THEN [al EXCEPT !.hp = hp1]
                    ELSE al
             damaged == IF target # 0
                        THEN [asteroids EXCEPT ![target].health = health1]
                        ELSE asteroids
             asts1 == IF astDead THEN RemoveAt(damaged, target) ELSE damaged
             drop == IF alienDead THEN AlienLoot(al, lootSerial, kick)
                     ELSE IF astDead
                          THEN <<AsteroidLoot(asteroids[target], lootSerial, kick)>>
                     ELSE <<>>
             fr2 == [fr1 EXCEPT !.dropped = drop,
                                \* Hit particles: if (Math.random() > 0.5)
                                !.sparks = IF attackingAlien \/ target # 0
                                           THEN fr.sparks ELSE 0,
                                !.debris = IF alienDead THEN AlienExplosion
                                           ELSE IF astDead
                                                THEN ShatterChunks + ShatterDust
                                           ELSE 0]
         IN \E shipNow \in {ship1}, astsNow \in {asts1}, alNow \in {al1},
               lootNow \in {loot \o drop}, frNow \in {fr2}, smNow \in {sm4} :
              FrameEnd(shipNow, speed2, astsNow, alNow, lootNow,
                       lootSerial + Len(lootNow) - Len(loot), frNow, smNow, fx4)

\* Alien Logic: Spawn Alien, Update Alien, Vampiric Drain
AlienLogic(ship, speed2, fr, sm, fx) ==
  \E sp \in (IF SlotEmpty(alien) THEN SpawnDraws ELSE {NoSpawn}) :
    LET al0 == IF sp.spawn THEN SpawnAlien(ship, sp.angle) ELSE alien
        \* startAlienHum at the spawn
        sm1 == IF sp.spawn THEN StartCue(sm, "hum") ELSE sm
    IN IF al0.exists
       THEN LET mv == AlienMove(al0, ship)
                avail == AvailableTypes(ship.cargo)
            IN \E typeToSteal \in (IF mv.attempt /\ avail # {} THEN avail ELSE {"none"}) :
                 IF typeToSteal # "none"
                 THEN Combat([ship EXCEPT !.cargo = StealCargo(ship.cargo, typeToSteal)],
                             speed2,
                             [mv.alien EXCEPT
                                !.stolenCargo = AddStolen(@, typeToSteal)],
                             [fr EXCEPT !.drainTick = TRUE, !.stolen = typeToSteal],
                             sm1,
                             \* Visual text on ship
                             Emit(fx, <<60>>))
                 ELSE Combat(ship, speed2, mv.alien,
                             [fr EXCEPT !.drainTick = mv.attempt], sm1, fx)
       ELSE Combat(ship, speed2, NoAlien, fr, StopCue(sm1, "hum"), fx)

\* one run of the requestAnimationFrame callback loop(), the keys held being
\* one of K
LoopWith(K) ==
  /\ gameState = "PLAYING"
  /\ looping
  /\ \E keys \in K : \E ph \in {ShipPhysics(playerState, keys)} :
       LET fr == [NoFrame EXCEPT !.ran = TRUE, !.thrusting = ph.thrusting,
                                 !.precap = ph.precap,
                                 !.thrustKey = keys.thrust,
                                 !.sparks = keys.spark,
                                 !.timed = frame.timed,
                                 !.count = IF frame.timed THEN frame.count + 1 ELSE 0]
           \* Play Thrust Sound / Stop Thrust Sound
           sm == IF ph.thrusting THEN StartCue(sound, "thrust")
                 ELSE StopCue(sound, "thrust")
           \* Shake Decay, Spawn thrust particles
           fx == IF ph.thrusting THEN Emit(ShakeDecay(effects), <<20>>)
                 ELSE ShakeDecay(effects)
       IN IF ph.ship.currentFuel > 0
          THEN \E idle \in {IdleConsumption(ph.ship)} :
                 AlienLogic(idle, ph.speed2, fr, sm, fx)
          ELSE IF GameOverCheck(ph.ship)
               THEN \* onGameOver(); return: GameCanvas is unmounted
                    /\ playerState' = ph.ship
                    /\ gameState' = handleGameOver
                    /\ asteroids' = <<>>
                    /\ alien' = NoAlien
                    /\ loot' = <<>>
                    /\ lootSerial' = 0
                    /\ looping' = PendingAfterCallback
                    /\ frame' = [fr EXCEPT !.event = "gameover", !.sparks = 0]
                    /\ sound' = StopAll(sm)
                    /\ effects' = NoEffects(effects.on)
                    /\ UNCHANGED <<finalState, mission, launches>>
               ELSE AlienLogic(ph.ship, ph.speed2, fr, sm, fx)

Frame == LoopWith(Keys)

\* a frame of a flight without encounters: the pilot steers, no alien comes
\* and the laser finds no target
FlightFrame ==
  /\ LoopWith(SteerKeys)
  /\ ~alien'.exists
  /\ ~frame'.laser

\* ------------------------------------------------------------------ App
\* GameCanvas initialization effect: it runs when the canvas mounts and again
\* whenever the playerState object changes
InitWorld ==
  /\ asteroids' = GenerateAsteroids
  /\ alien' = NoAlien
  /\ loot' = <<>>
  /\ lootSerial' = 0
  /\ sound' = NewSoundManager(sound.graph)
  /\ effects' = NoEffects(effects.on)

handleStartGame ==
  /\ gameState = "START"
  /\ gameState' = "PLAYING"
  /\ InitWorld
  /\ looping' = TRUE
  /\ frame' = NoFrame
  /\ mission' = BeginMission(playerState)
  /\ UNCHANGED <<playerState, finalState, launches>>

handleLaunch ==
  /\ gameState = "DOCKED"
  /\ launches < MaxLaunches
  /\ playerState' =
       [playerState EXCEPT
          !.position = [x |-> STATION_POSITION.x,
                        y |-> STATION_POSITION.y + LaunchOffset],
          !.velocity = [x |-> 0, y |-> LaunchPush]]
  /\ gameState' = "PLAYING"
  /\ InitWorld
  /\ looping' = TRUE
  /\ frame' = NoFrame
  /\ finalState' = NoState
  /\ mission' = BeginMission(playerState)
  /\ launches' = launches + 1

\* a restart that keeps the ship's upgrades
RestartStateKeepingConfig ==
  [credits |-> 0,
   currentFuel |-> playerState.shipConfig.maxFuel,
   cargo |-> EmptyCargo,
   shipConfig |-> playerState.shipConfig,
   position |-> [x |-> STATION_POSITION.x,
                 y |-> STATION_POSITION.y + LaunchOffset],
   velocity |-> [x |-> 0, y |-> LaunchPush],
   rotation |-> 3]

\* the object handleRestart passes to setPlayerState
RestartState ==
  [credits |-> 0,
   currentFuel |-> INITIAL_SHIP_CONFIG.maxFuel,
   cargo |-> EmptyCargo,
   shipConfig |-> INITIAL_SHIP_CONFIG,
   position |-> [x |-> STATION_POSITION.x,
                 y |-> STATION_POSITION.y + LaunchOffset],
   velocity |-> [x |-> 0, y |-> LaunchPush],
   rotation |-> 3]

handleRestart ==
  /\ gameState = "GAMEOVER"
  /\ playerState' = RestartState
  /\ gameState' = "PLAYING"
  /\ InitWorld
  /\ looping' = TRUE
  /\ frame' = NoFrame
  /\ finalState' = NoState
  /\ mission' = [BeginMission(playerState') EXCEPT
                   !.upgradesLost = playerState.shipConfig # INITIAL_SHIP_CONFIG]
  /\ UNCHANGED launches

\* ----------------------------------------------------------------- shop
\* Math.floor(UPGRADE_COST_BASE * Math.pow(UPGRADE_COST_MULTIPLIER, level)),
\* with UPGRADE_COST_MULTIPLIER = 1.8
RECURSIVE Pow(_, _)
Pow(b, n) == IF n = 0 THEN 1 ELSE b * Pow(b, n - 1)

\* a price list that does not grow
calculateUpgradeCostFlat(level) == UPGRADE_COST_BASE

calculateUpgradeCost(level) == (UPGRADE_COST_BASE * Pow(18, level)) \div Pow(10, level)

\* Math.round((current - initial) / step)
getLevel(current, initial, step) == (2 * (current - initial) + step) \div (2 * step)

\* the upgrade buttons: stat, step
Upgrades ==
  {[stat |-> "acceleration", step |-> AccelerationStep],
   [stat |-> "maxCargo", step |-> CargoStep],
   [stat |-> "miningPower", step |-> MiningPowerStep],
   [stat |-> "maxFuel", step |-> FuelStep]}

StatLevel(ps, u) ==
  getLevel(ps.shipConfig[u.stat], INITIAL_SHIP_CONFIG[u.stat], u.step)

\* a station interface rendered whenever the canvas is
ShopOpenWithCanvas == gameState \in {"PLAYING", "DOCKED"}

\* App render gating: gameState === GameState.DOCKED && <StationInterface ...>
ShopOpen == gameState = "DOCKED"

\* the shop leaves the loop's variables alone; the initialization effect runs
\* again for the new playerState object
ShopFrame ==
  /\ InitWorld
  /\ frame' = NoFrame
  /\ UNCHANGED <<gameState, looping, finalState, mission, launches>>

sellAll ==
  /\ ShopOpen
  /\ CargoTotal(playerState.cargo) # 0
  /\ LET totalValue ==
           playerState.cargo["Iron"] * MINERAL_VALUES["Iron"]
           + playerState.cargo["Silicon"] * MINERAL_VALUES["Silicon"]
           + playerState.cargo["Gold"] * MINERAL_VALUES["Gold"]
           + playerState.cargo["Kronos Crystal"] * MINERAL_VALUES["Kronos Crystal"]
     IN playerState' =
          [playerState EXCEPT
             !.credits = @ + totalValue,
             !.cargo = EmptyCargo,
             !.currentFuel = playerState.shipConfig.maxFuel]
  /\ ShopFrame

\* a price rounded down
\* a shop that sells on credit
CanAffordAlways(credits, cost) == TRUE

\* if (playerState.credits >= cost), in refuel and in upgradeStat
CanAfford(credits, cost) == credits >= cost

RefuelCostFloor(fuelNeeded) == fuelNeeded \div 10

\* Math.ceil(fuelNeeded * 0.1), fuelNeeded a whole number of fuel units
RefuelCost(fuelNeeded) ==
  IF fuelNeeded >= 0 THEN (fuelNeeded + 9) \div 10 ELSE -((-fuelNeeded) \div 10)

\* Math.floor(playerState.credits / 0.1)
\* a partial refuel that rounds the credits up to the next one
FuelAffordableRoundedUp(credits) == (credits + 1) * 10

\* Math.floor(playerState.credits / 0.1)
FuelAffordable(credits) == credits * 10

refuel ==
  /\ ShopOpen
  /\ LET fuelNeeded == playerState.shipConfig.maxFuel - playerState.currentFuel
         cost == RefuelCost(fuelNeeded)
         fuelAffordable == FuelAffordable(playerState.credits)
     IN /\ ~(fuelNeeded <= 1)
        /\ IF CanAfford(playerState.credits, cost)
           THEN playerState' =
                  [playerState EXCEPT
                     !.credits = @ - cost,
                     !.currentFuel = playerState.shipConfig.maxFuel]
           ELSE playerState' =
                  [playerState EXCEPT
                     !.credits = 0,
                     !.currentFuel = @ + fuelAffordable]
  /\ ShopFrame

upgradeStat(u) ==
  /\ ShopOpen
  /\ StatLevel(playerState, u) < MaxUpgrades
  /\ LET cost == calculateUpgradeCost(StatLevel(playerState, u))
     IN /\ ~(playerState.credits < cost)
        /\ IF CanAfford(playerState.credits, cost)
           THEN playerState' =
                  [playerState EXCEPT
                     !.credits = @ - cost,
                     !.shipConfig[u.stat] = @ + u.step]
           ELSE UNCHANGED playerState
  /\ ShopFrame

upgrade == \E u \in Upgrades : upgradeStat(u)

\* ------------------------------------------------------------ specification
Init ==
  /\ gameState = "START"
  /\ playerState = InitialPlayerState
  /\ asteroids = <<>>
  /\ alien = NoAlien
  /\ loot = <<>>
  /\ lootSerial = 0
  /\ looping = FALSE
  /\ frame = NoFrame
  /\ finalState = NoState
  /\ mission = BeginMission(InitialPlayerState)
  /\ launches = 0
  /\ sound = NewSoundManager(FALSE)
  /\ effects = NoEffects(FALSE)

Next ==
  \/ handleStartGame
  \/ handleLaunch
  \/ handleRestart
  \/ Frame
  \/ sellAll
  \/ refuel
  \/ upgrade

Spec == Init /\ [][Next]_vars

\* the loop ends every frame that renders with requestAnimationFrame(loop),
\* and the browser runs a pending callback: weak fairness of the frames,
\* WF_vars(Frame), written out with ENABLED <<Frame>>_vars as what it is, the
\* PLAYING screen with the callback pending
FramePending == gameState = "PLAYING" /\ looping

SpecFair == Spec /\ ([]<>~FramePending \/ []<><<Frame>>_vars)

\* flights only: steering in two dimensions, docking, running dry, restarting
NextFlight ==
  \/ handleStartGame
  \/ handleLaunch
  \/ handleRestart
  \/ FlightFrame

SpecFlight == Init /\ [][NextFlight]_vars

\* the loop's guard: the canvas or its 2D context is missing when the callback
\* runs (ctx is read once, when the loop effect runs); the callback returns
\* before it reaches requestAnimationFrame
SkippedFrame ==
  /\ gameState = "PLAYING"
  /\ looping
  /\ looping' = FALSE
  /\ frame' = NoFrame
  /\ UNCHANGED <<gameState, playerState, asteroids, alien, loot, lootSerial,
                 finalState, mission, launches, sound, effects>>

\* the window is resized: dimensions is a dependency of the loop effect, which
\* cancels the pending callback and starts the loop again
handleResize ==
  /\ gameState = "PLAYING"
  /\ looping' = TRUE
  /\ UNCHANGED <<gameState, playerState, asteroids, alien, loot, lootSerial,
                 frame, finalState, mission, launches, sound, effects>>

\* flights on a drawing surface that may be missing
NextSurface ==
  \/ handleStartGame
  \/ handleLaunch
  \/ handleRestart
  \/ FlightFrame
  \/ SkippedFrame
  \/ handleResize

SpecSurface == Init /\ [][NextSurface]_vars

\* ------------------------------------------------------ timed scenarios
\* INITIAL_SHIP_CONFIG with its fuel figures in units of 0.05 (maxFuel 1000,
\* fuelConsumptionRate 0.05, thrustConsumptionRate 0.5) and asteroid health
\* and miningPower in units of 0.5 (health 100, miningPower 1.5); lengths and
\* speeds stay in the units of the small world
RealMaxFuel == 20000
RealFuelRate == 1
RealThrustRate == 10
RealMiningPower == 3
RealAsteroidHealth == 200

RealShipConfig ==
  [INITIAL_SHIP_CONFIG EXCEPT !.maxFuel = RealMaxFuel,
                              !.fuelConsumptionRate = RealFuelRate,
                              !.thrustConsumptionRate = RealThrustRate,
                              !.miningPower = RealMiningPower]

\* radius: 20 + Math.random() * 40
DrillRadii == {20, 24, 37, 59}

\* a ship with a full tank out of docking range, the frames counted from here
TimedShip(vy) ==
  [InitialPlayerState EXCEPT
     !.shipConfig = RealShipConfig,
     !.currentFuel = RealMaxFuel,
     !.position = [x |-> STATION_POSITION.x, y |-> STATION_POSITION.y + LaunchOffset],
     !.velocity = [x |-> 0, y |-> vy]]

\* the ship at rest in mining range of one asteroid of full health
InitDrill ==
  /\ gameState = "PLAYING"
  /\ playerState = TimedShip(0)
  /\ \E r \in DrillRadii, t \in MineralType :
       asteroids = <<[id |-> 1, x |-> 0, y |-> ASTEROID_SPAWN_RADIUS,
                      radius |-> r, type |-> t,
                      health |-> RealAsteroidHealth,
                      maxHealth |-> RealAsteroidHealth]>>
  /\ alien = NoAlien
  /\ loot = <<>>
  /\ lootSerial = 0
  /\ looping = TRUE
  /\ frame = [NoFrame EXCEPT !.timed = TRUE]
  /\ finalState = NoState
  /\ mission = BeginMission(playerState)
  /\ launches = 0
  /\ sound = NewSoundManager(FALSE)
  /\ effects = NoEffects(FALSE)

\* a frame in which the laser is held on the asteroid, the keys left alone
DrillFrame ==
  /\ LoopWith(IdleKeys)
  /\ ~alien'.exists
  /\ frame'.miningTarget # 0

SpecDrill == InitDrill /\ [][DrillFrame]_vars

\* idle frames counted up to IdleFrames and a few more
IdleFrames == 1000

\* the ship adrift or at rest among the asteroids of the field
InitIdle ==
  /\ gameState = "PLAYING"
  /\ \E vy \in {0, LaunchPush} : playerState = TimedShip(vy)
  /\ asteroids = GenerateAsteroids
  /\ alien = NoAlien
  /\ loot = <<>>
  /\ lootSerial = 0
  /\ looping = TRUE
  /\ frame = [NoFrame EXCEPT !.timed = TRUE]
  /\ finalState = NoState
  /\ mission = BeginMission(playerState)
  /\ launches = 0
  /\ sound = NewSoundManager(FALSE)
  /\ effects = NoEffects(FALSE)

\* a frame without thrust and without mining
IdleFrame ==
  /\ frame.count < IdleFrames + 2
  /\ LoopWith(IdleKeys)
  /\ ~frame'.laser

SpecIdle == InitIdle /\ [][IdleFrame]_vars

\* ------------------------------------------------------------ the fuel pump
\* tanks, fuel missing from them and credits of a docked ship; 1000 is the
\* tank of INITIAL_SHIP_CONFIG in whole fuel units
StationTanks == {InitMaxFuel, InitMaxFuel + FuelStep, 1000}
StationMissing == {2, 5, 9, 10, 11, 12, 13, 25, 500, 501, 1000}
StationCredits == 0..13 \cup {49, 50, 51, 99, 100, 101}

\* the ship docked with a tank that is not full
InitStation ==
  /\ gameState = "DOCKED"
  /\ \E tank \in StationTanks, missing \in StationMissing, cr \in StationCredits :
       /\ missing <= tank + 1
       /\ playerState =
            [Docked(InitialPlayerState) EXCEPT
               !.shipConfig = [INITIAL_SHIP_CONFIG EXCEPT !.maxFuel = tank],
               !.currentFuel = tank - missing,
               !.credits = cr]
  /\ asteroids = GenerateAsteroids
  /\ alien = NoAlien
  /\ loot = <<>>
  /\ lootSerial = 0
  /\ looping = FALSE
  /\ frame = NoFrame
  /\ finalState = NoState
  /\ mission = BeginMission(playerState)
  /\ launches = 0
  /\ sound = NewSoundManager(FALSE)
  /\ effects = NoEffects(FALSE)

SpecStation == InitStation /\ [][refuel]_vars

\* ------------------------------------------------------------ speed cap
\* frames of ships in flight: maxSpeed in the units of the small world or
\* that of INITIAL_SHIP_CONFIG (8, never upgraded), the engine as built or
\* upgraded once, any heading, any velocity within maxSpeed
CapSpeeds == {InitMaxSpeed, 8}
CapVelocities == {-8, -6, -3, -2, 0, 1, 3, 4, 6, 8}

\* frames followed from each of these ships
CapFrames == 2

InitCap ==
  /\ gameState = "PLAYING"
  /\ \E ms \in CapSpeeds,
        acc \in {InitAcceleration, InitAcceleration + AccelerationStep},
        rot \in 0..3, vx \in CapVelocities, vy \in CapVelocities :
       /\ vx * vx + vy * vy <= ms * ms
       /\ playerState =
            [TimedShip(vy) EXCEPT
               !.shipConfig = [INITIAL_SHIP_CONFIG EXCEPT !.maxSpeed = ms,
                                                          !.acceleration = acc],
               !.currentFuel = INITIAL_SHIP_CONFIG.maxFuel,
               !.velocity = [x |-> vx, y |-> vy],
               !.rotation = rot]
  /\ asteroids = GenerateAsteroids
  /\ alien = NoAlien
  /\ loot = <<>>
  /\ lootSerial = 0
  /\ looping = TRUE
  /\ frame = [NoFrame EXCEPT !.timed = TRUE]
  /\ finalState = NoState
  /\ mission = BeginMission(playerState)
  /\ launches = 0
  /\ sound = NewSoundManager(FALSE)
  /\ effects = NoEffects(FALSE)

CapFrame ==
  /\ frame.count < CapFrames
  /\ FlightFrame

SpecCap == InitCap /\ [][CapFrame]_vars

\* ------------------------------------------------------------ the workshop
\* credits of a docked ship, around the prices of the first upgrade levels
ShopCredits == {0, 199, 200, 359, 360, 647, 648, 1165, 1166, 1400}

\* the ship docked with each stat upgraded some number of times
InitShop ==
  /\ gameState = "DOCKED"
  /\ \E cr \in ShopCredits, lv \in [Upgrades -> 0..MaxUpgrades] :
       playerState =
         [Docked(InitialPlayerState) EXCEPT
            !.shipConfig =
               [k \in DOMAIN INITIAL_SHIP_CONFIG |->
                  IF \E u \in Upgrades : u.stat = k
                  THEN LET u == CHOOSE u \in Upgrades : u.stat = k
                       IN INITIAL_SHIP_CONFIG[k] + lv[u] * u.step
                  ELSE INITIAL_SHIP_CONFIG[k]],
            !.credits = cr]
  /\ asteroids = GenerateAsteroids
  /\ alien = NoAlien
  /\ loot = <<>>
  /\ lootSerial = 0
  /\ looping = FALSE
  /\ frame = NoFrame
  /\ finalState = NoState
  /\ mission = BeginMission(playerState)
  /\ launches = 0
  /\ sound = NewSoundManager(FALSE)
  /\ effects = NoEffects(FALSE)

SpecShop == InitShop /\ [][upgrade]_vars

\* ------------------------------------------------------------ combat
\* the end of a mission, the frames counted and the mouse button noted: the
\* ship launched and at rest with little fuel left, the asteroids of the
\* field in mining range, the alien hovering in front of the nose
InitCombat ==
  /\ gameState = "PLAYING"
  /\ \E f \in {2, 5, 8} :
       playerState =
         [InitialPlayerState EXCEPT
            !.currentFuel = f,
            !.position = [x |-> STATION_POSITION.x,
                          y |-> STATION_POSITION.y + LaunchOffset]]
  /\ asteroids = GenerateAsteroids
  /\ \E hp \in {1, ALIEN_HP} :
       alien = [SpawnAlien(playerState, 3) EXCEPT
                  !.y = playerState.position.y - 2,
                  !.hp = hp,
                  !.state = "DRAINING"]
  /\ loot = <<>>
  /\ lootSerial = 0
  /\ looping = TRUE
  /\ frame = [NoFrame EXCEPT !.timed = TRUE]
  /\ finalState = NoState
  /\ mission = BeginMission(playerState)
  /\ launches = 0
  /\ sound = NewSoundManager(FALSE)
  /\ effects = NoEffects(FALSE)

CombatFrame == LoopWith(Keys)

SpecCombat == InitCombat /\ [][CombatFrame]_vars

\* ------------------------------------------------------ the render pass
\* keysRef of a pilot who thrusts or not, every hit throwing its particle
RenderKeys == [left : {FALSE}, right : {FALSE}, thrust : BOOLEAN, spark : {1}]

\* the last frames of a mission with the effects followed: the ship at rest
\* in mining range of an asteroid that was drilled before, a few frames of
\* fuel left, particles of earlier frames still alive and the screen shaking
\* or not
InitRender ==
  /\ gameState = "PLAYING"
  /\ playerState = [TimedShip(0) EXCEPT !.currentFuel = 12,
                                         !.shipConfig.maxCargo = 20]
  /\ \E r \in {20, 59}, h \in {2, RealAsteroidHealth} :
       asteroids = <<[id |-> 1, x |-> 0, y |-> ASTEROID_SPAWN_RADIUS,
                      radius |-> r, type |-> "Iron",
                      health |-> h,
                      maxHealth |-> RealAsteroidHealth]>>
  /\ alien = NoAlien
  /\ loot = <<>>
  /\ lootSerial = 0
  /\ looping = TRUE
  /\ frame = NoFrame
  /\ finalState = NoState
  /\ mission = BeginMission(playerState)
  /\ launches = 0
  /\ sound = NewSoundManager(FALSE)
  /\ \E sh \in {0, 1500}, ps \in {<<>>, <<1, 2, 14>>} :
       effects = [NoEffects(TRUE) EXCEPT !.shake = sh, !.particles = ps]

RenderFrame ==
  /\ LoopWith(RenderKeys)
  /\ ~alien'.exists

SpecRender == InitRender /\ [][RenderFrame]_vars

\* --------------------------------------------------------- the missions
\* the title screen, the effects followed from the first mission on
InitMissions ==
  /\ gameState = "START"
  /\ playerState = InitialPlayerState
  /\ asteroids = <<>>
  /\ alien = NoAlien
  /\ loot = <<>>
  /\ lootSerial = 0
  /\ looping = FALSE
  /\ frame = NoFrame
  /\ finalState = NoState
  /\ mission = BeginMission(InitialPlayerState)
  /\ launches = 0
  /\ sound = NewSoundManager(FALSE)
  /\ effects = NoEffects(TRUE)

\* missions without the alien: start, frames, docks, launches, game overs
\* and restarts
NextMissions ==
  \/ handleStartGame
  \/ handleLaunch
  \/ handleRestart
  \/ RenderFrame

SpecMissions == InitMissions /\ [][NextMissions]_vars

\* ------------------------------------------------------------ the cues
\* audio nodes created per cue in the runs that follow the nodes
MaxNodes == 2

\* everything but the sound manager
world == <<gameState, playerState, asteroids, alien, loot, lootSerial, looping,
           frame, finalState, mission, launches, effects>>

\* the canvas mounted with a sound manager whose nodes are followed
InitSound ==
  /\ gameState = "PLAYING"
  /\ playerState = InitialPlayerState
  /\ asteroids = GenerateAsteroids
  /\ alien = NoAlien
  /\ loot = <<>>
  /\ lootSerial = 0
  /\ looping = TRUE
  /\ frame = NoFrame
  /\ finalState = NoState
  /\ mission = BeginMission(InitialPlayerState)
  /\ launches = 0
  /\ sound = NewSoundManager(TRUE)
  /\ effects = NoEffects(FALSE)

StartCall(c) ==
  /\ sound.cue[c].ref # {} \/ sound.cue[c].made < MaxNodes
  /\ sound' = StartCue(sound, c)
  /\ UNCHANGED world

StopCall(c) ==
  /\ sound' = StopCue(sound, c)
  /\ UNCHANGED world

startThrust == StartCall("thrust")
stopThrust == StopCall("thrust")
startLaser == StartCall("laser")
stopLaser == StopCall("laser")
startAlienHum == StartCall("hum")
stopAlienHum == StopCall("hum")

\* a setTimeout callback of a stop runs
releaseTimer ==
  /\ \E c \in Cues : \E n \in sound.cue[c].timers : sound' = ReleaseNode(sound, c, n)
  /\ UNCHANGED world

NextSound ==
  \/ startThrust
  \/ stopThrust
  \/ startLaser
  \/ stopLaser
  \/ startAlienHum
  \/ stopAlienHum
  \/ releaseTimer

SpecSound == InitSound /\ [][NextSound]_vars

\* round trips: the ship is docked in a state S left by earlier missions, is
\* launched, flies and docks again, with no shop operation in between.  The
\* states S are states Spec reaches on the DOCKED screen: the Loot of one Gold
\* asteroid sold (which refills the tank), and then the next one mined and
\* kept, whole or less a unit stolen, or lost, and the tank refilled
RoundTripLoot == AsteroidRadius \div LootDivisor

RoundTripCargo ==
  {EmptyCargo,
   [EmptyCargo EXCEPT !["Gold"] = RoundTripLoot],
   [EmptyCargo EXCEPT !["Gold"] = RoundTripLoot - 1]}

RoundTripSale == RoundTripLoot * MINERAL_VALUES["Gold"]

\* Math.ceil(fuelNeeded * 0.1) for a tank that is nearly empty
RoundTripRefuel == (InitMaxFuel - 1 + 9) \div 10

DockedWith(c, cr) ==
  [InitialPlayerState EXCEPT
     !.position = [x |-> STATION_POSITION.x, y |-> STATION_POSITION.y],
     !.cargo = c,
     !.credits = cr]

DockedStates ==
  {DockedWith(EmptyCargo, RoundTripSale)}
    \cup {DockedWith(c, RoundTripSale - RoundTripRefuel) : c \in RoundTripCargo}

InitRoundTrip ==
  /\ gameState = "DOCKED"
  /\ playerState \in DockedStates
  /\ asteroids = GenerateAsteroids
  /\ alien = NoAlien
  /\ loot = <<>>
  /\ lootSerial = 0
  /\ looping = FALSE
  /\ frame = NoFrame
  /\ finalState = NoState
  /\ mission = BeginMission(playerState)
  /\ launches = 0
  /\ sound = NewSoundManager(FALSE)
  /\ effects = NoEffects(FALSE)

NextRoundTrip ==
  \/ handleLaunch
  \/ Frame

SpecRoundTrip == InitRoundTrip /\ [][NextRoundTrip]_vars

\* ------------------------------------------------------------------ claims
\* C1: after any sequence of frames and shop operations (loot collection,
\* several loot items collected in one frame included, alien theft, sell-all,
\* cargo upgrades) the sum of the ship's cargo counts is at most
\* shipConfig.maxCargo.
CargoWithinCapacity ==
  CargoTotal(playerState.cargo) <= playerState.shipConfig.maxCargo

\* two Loot items were collected in one frame
CargoTwoCollectedInOneFrame ==
  /\ frame.ran
  /\ Cardinality(frame.collected) >= 2

\* C2: ship fuel is never negative: currentFuel >= 0 in every reachable state
\* of a mission, whatever the combination of thrust, laser and idle
\* consumption.
FuelNeverNegative == playerState.currentFuel >= 0

\* C3: in a frame of a mission fuel never increases, and in a frame in which
\* thrust or the laser is active the fuel after the frame is below the fuel
\* before it.
FuelNonIncreasing ==
  [][gameState = "PLAYING" =>
       /\ playerState'.currentFuel <= playerState.currentFuel
       /\ (frame'.thrusting \/ frame'.laser) =>
            playerState'.currentFuel < playerState.currentFuel]_vars

\* a frame ran with the thrust and the laser both active
FuelThrustAndLaserFrame ==
  /\ frame.ran
  /\ frame.thrusting
  /\ frame.laser

AsteroidIds(asts) == {asts[i].id : i \in 1..Len(asts)}

AsteroidById(asts, id) == asts[CHOOSE i \in 1..Len(asts) : asts[i].id = id]

\* C4: an asteroid's health decreases in a frame only if it is the mining
\* target of that frame; an asteroid whose health reaches <= 0 leaves the
\* active collection in that same frame, once, and is never damaged or
\* targeted afterwards: every asteroid of the collection at a frame boundary
\* has health > 0, the target of a frame is an asteroid of the collection,
\* and no asteroid comes back.
AsteroidDamageOnlyWhenTargeted ==
  [][/\ \A i \in 1..Len(asteroids') : asteroids'[i].health > 0
     /\ (gameState = "PLAYING" /\ gameState' = "PLAYING") =>
          /\ AsteroidIds(asteroids') \subseteq AsteroidIds(asteroids)
          /\ Cardinality(AsteroidIds(asteroids')) = Len(asteroids')
          /\ frame'.miningTarget # 0 =>
               frame'.miningTarget \in AsteroidIds(asteroids)
          /\ \A i \in 1..Len(asteroids) :
               LET a == asteroids[i]
               IN IF a.id \in AsteroidIds(asteroids')
                  THEN LET b == AsteroidById(asteroids', a.id)
                       IN /\ b.health <= a.health
                          /\ b.health < a.health => frame'.miningTarget = a.id
                  ELSE /\ frame'.miningTarget = a.id
                       /\ a.health - playerState.shipConfig.miningPower <= 0]_vars

\* the target of the last frame was destroyed and is gone, another asteroid
\* is still there
AsteroidDestroyedInFrame ==
  /\ gameState = "PLAYING"
  /\ frame.miningTarget # 0
  /\ frame.miningTarget \notin AsteroidIds(asteroids)
  /\ asteroids # <<>>

LootIds(items) == {items[i].id : i \in 1..Len(items)}

\* C5: a Loot instance is collected at most once: the Loot collected in a
\* frame was never collected before, is out of the loot collection before
\* that frame's rendering (what is rendered is the collection the frame
\* leaves), and no Loot of the collection has ever been collected or has
\* life 0.
LootCollectedOnce ==
  [][(gameState = "PLAYING" /\ frame'.ran) =>
       /\ frame'.collected \cap mission.collected = {}
       /\ frame'.collected \cap LootIds(loot') = {}
       /\ LootIds(loot') \cap mission'.collected = {}
       /\ Cardinality(LootIds(loot')) = Len(loot')
       /\ \A i \in 1..Len(loot') : loot'[i].life > 0]_vars

\* a frame collected one Loot, rendered, and left another one floating
LootCollectedAndGone ==
  /\ gameState = "PLAYING"
  /\ frame.rendered
  /\ frame.collected # {}
  /\ loot # <<>>

\* C6: alien theft never makes a cargo count negative: a drain tick steals
\* only from a mineral type whose count is > 0, and a tick that finds every
\* count at 0 transfers nothing (ship cargo not lowered, stolenCargo
\* unchanged).
TheftNeverNegative ==
  [][/\ \A t \in MineralType : playerState'.cargo[t] >= 0
     /\ (gameState = "PLAYING" /\ frame'.ran) =>
          /\ frame'.stolen # "none" =>
               /\ frame'.drainTick
               /\ playerState.cargo[frame'.stolen] > 0
          /\ (frame'.drainTick /\ CargoTotal(playerState.cargo) = 0) =>
               /\ frame'.stolen = "none"
               /\ \A t \in MineralType :
                    playerState'.cargo[t] >= playerState.cargo[t]
               /\ (alien.exists /\ alien'.exists) =>
                    alien'.stolenCargo = alien.stolenCargo]_vars

\* the alien has emptied the hold and its next drain tick found nothing
TheftTickOnEmptyCargo ==
  /\ frame.drainTick
  /\ frame.stolen = "none"
  /\ alien.exists
  /\ StolenTotal(alien) > 0

\* C7, as the spec states it: a launch, frames in which the player never
\* fires at anything, and a docking with no shop operation in between leave
\* cargo and credits as they were at the launch.
RoundTripSameCargoAndCredits ==
  (frame.event = "dock" /\ ~mission.fired) =>
    /\ playerState.cargo = mission.cargo
    /\ playerState.credits = mission.credits

\* C7, amended: such a round trip leaves the credits as they were and no
\* cargo count higher than it was; the cargo is the same if the alien stole
\* nothing on the way; the fuel is lower than at the launch.
RoundTripKeepsCreditsAndLosesNoCargoButToTheft ==
  (frame.event = "dock" /\ ~mission.fired) =>
    /\ playerState.credits = mission.credits
    /\ \A t \in MineralType : playerState.cargo[t] <= mission.cargo[t]
    /\ ~mission.robbed => playerState.cargo = mission.cargo
    /\ playerState.currentFuel < mission.fuel

\* the ship docked after a flight without a shot, robbed on the way
RoundTripRobbed ==
  /\ frame.event = "dock"
  /\ ~mission.fired
  /\ mission.robbed
  /\ launches > 0

Speed2(ship) == ship.velocity.x * ship.velocity.x + ship.velocity.y * ship.velocity.y

\* C8: the dock callback is invoked in a frame only if the ship is within
\* DOCKING_RANGE of the station origin and its speed in that frame is below
\* the docking speed (0.5): the ship the callback receives is inside the
\* radius and slow, so a ship crossing the radius at or above that speed is
\* not docked.
DockOnlyInRangeAndSlow ==
  frame.event = "dock" =>
    /\ gameState = "DOCKED"
    /\ Dist2(finalState.position.x, finalState.position.y,
             STATION_POSITION.x, STATION_POSITION.y)
         < DOCKING_RANGE * DOCKING_RANGE
    /\ Speed2(finalState) < DockSpeed * DockSpeed

\* the ship came back from a launch and docked while still drifting, off the
\* launch axis
DockedWhileDrifting ==
  /\ frame.event = "dock"
  /\ launches > 0
  /\ Speed2(finalState) > 0
  /\ finalState.position.x # STATION_POSITION.x

\* C9: the game-over callback is invoked only in a frame in which the fuel is
\* exhausted (<= 0) and both |vx| and |vy| are below the stop threshold
\* (0.1); it fires neither with fuel left nor while the ship with the empty
\* tank is still coasting.
GameOverOnlyWhenDryAndStopped ==
  (frame.event = "gameover" \/ gameState = "GAMEOVER") =>
    /\ frame.event = "gameover"
    /\ gameState = "GAMEOVER"
    /\ playerState.currentFuel <= 0
    /\ Abs(playerState.velocity.x) < StopSpeed
    /\ Abs(playerState.velocity.y) < StopSpeed

\* the mission ended after a flight that left the launch axis
GameOverAfterCoasting ==
  /\ frame.event = "gameover"
  /\ launches > 0
  /\ playerState.position.x # STATION_POSITION.x

Transitions ==
  {<<"START", "PLAYING">>, <<"PLAYING", "DOCKED">>, <<"DOCKED", "PLAYING">>,
   <<"PLAYING", "GAMEOVER">>, <<"GAMEOVER", "PLAYING">>}

\* C10: the screen changes only along START -> PLAYING, PLAYING -> DOCKED
\* (the dock callback), DOCKED -> PLAYING, PLAYING -> GAMEOVER (the game-over
\* callback) and GAMEOVER -> PLAYING; START is never entered again.
ScreenTransitions ==
  [][/\ gameState' # gameState => <<gameState, gameState'>> \in Transitions
     /\ gameState' # "START"
     /\ (gameState = "PLAYING" /\ gameState' = "DOCKED") => frame'.event = "dock"
     /\ (gameState = "PLAYING" /\ gameState' = "GAMEOVER") =>
          frame'.event = "gameover"]_vars

\* the game is over in a mission that was launched from the station: the
\* screens START, PLAYING, DOCKED, PLAYING, GAMEOVER have been passed
ScreenGameOverAfterLaunch ==
  /\ gameState = "GAMEOVER"
  /\ launches > 0

OutsideDockingRange(ship) ==
  Dist2(ship.position.x, ship.position.y, STATION_POSITION.x, STATION_POSITION.y)
    >= DOCKING_RANGE * DOCKING_RANGE

\* C11: every transition into PLAYING (start, launch, restart) places the
\* ship outside docking range, and the first frame of a mission, run with no
\* key held, does not dock.
NoInstantRedock ==
  [][/\ (gameState # "PLAYING" /\ gameState' = "PLAYING") =>
          OutsideDockingRange(playerState')
     /\ (gameState = "PLAYING" /\ ~frame.ran /\ ~frame'.thrusting) =>
          frame'.event # "dock"]_vars

\* C12: a restart after game over resets the ship to the defaults whatever
\* came before: credits 0, fuel at the initial maxFuel, every cargo count 0,
\* the initial ship config, and the launch position, velocity and rotation.
RestartResetsToDefaults ==
  [][(gameState = "GAMEOVER" /\ gameState' = "PLAYING") =>
       /\ playerState'.credits = 0
       /\ playerState'.currentFuel = INITIAL_SHIP_CONFIG.maxFuel
       /\ \A t \in MineralType : playerState'.cargo[t] = 0
       /\ playerState'.shipConfig = INITIAL_SHIP_CONFIG
       /\ playerState'.position =
            [x |-> STATION_POSITION.x, y |-> STATION_POSITION.y + LaunchOffset]
       /\ playerState'.velocity = [x |-> 0, y |-> LaunchPush]
       /\ playerState'.rotation = InitialPlayerState.rotation]_vars

\* a mission has just begun by a restart that discarded an upgraded ship
RestartedAfterUpgrade ==
  /\ gameState = "PLAYING"
  /\ ~frame.ran
  /\ mission.upgradesLost
  /\ launches > 0

\* C13: the shop operations (sell all, refuel, upgrades) act only while the
\* screen is DOCKED, and no frame of the loop runs while it is DOCKED: a step
\* that runs a frame starts in PLAYING with the loop scheduled, no callback
\* of the loop is pending on another screen, and a step that changes the
\* credits or the ship config or raises the fuel, other than the restart,
\* starts and ends in DOCKED and runs no frame.
ShopOnlyWhileDocked ==
  [][/\ frame'.ran => (gameState = "PLAYING" /\ looping)
     /\ looping' => gameState' = "PLAYING"
     /\ (/\ gameState # "GAMEOVER"
         /\ \/ playerState'.credits # playerState.credits
            \/ playerState'.shipConfig # playerState.shipConfig
            \/ playerState'.currentFuel > playerState.currentFuel) =>
          /\ gameState = "DOCKED"
          /\ gameState' = "DOCKED"
          /\ ~frame'.ran]_vars

\* the shop has sold the cargo brought back by a mission
ShopHasSold ==
  /\ gameState = "DOCKED"
  /\ ~frame.ran
  /\ ~looping
  /\ playerState.credits > 0

\* C14: when the canvas or its 2D context is missing as a frame callback
\* runs, the callback skips the frame and is scheduled again: while the screen
\* stays PLAYING, a step never leaves the loop without a pending callback.
UnreadySurfaceKeepsLoop ==
  [][(gameState = "PLAYING" /\ looping /\ gameState' = "PLAYING") => looping']_vars

\* C15: a frame damages at most one entity, by exactly miningPower, and
\* charges the laser once: the alien and an asteroid are never both hit, a
\* frame that hits the alien leaves every asteroid as it was even when an
\* asteroid is under the cursor and in range, the alien loses miningPower
\* exactly when it is hit, only the mining target loses health and it loses
\* miningPower, and the fuel after the frame is the fuel before it less the
\* thrust, the idle consumption and one laser cost if the laser fired.
SingleLaserTarget ==
  [][(gameState = "PLAYING" /\ gameState' = "PLAYING" /\ frame'.ran) =>
       LET cfg == playerState.shipConfig
           power == cfg.miningPower
           hp0 == IF alien.exists THEN alien.hp ELSE ALIEN_HP
           fuel1 == playerState.currentFuel
                      - (IF frame'.thrusting THEN cfg.thrustConsumptionRate ELSE 0)
           idle == IF fuel1 > 0 THEN cfg.fuelConsumptionRate ELSE 0
       IN /\ ~(frame'.attackingAlien /\ frame'.miningTarget # 0)
          /\ frame'.laser <=> (frame'.attackingAlien \/ frame'.miningTarget # 0)
          /\ frame'.attackingAlien => asteroids' = asteroids
          /\ alien'.exists =>
               alien'.hp = hp0 - (IF frame'.attackingAlien THEN power ELSE 0)
          /\ (frame'.attackingAlien /\ ~alien'.exists) => hp0 - power <= 0
          /\ \A i \in 1..Len(asteroids) :
               LET a == asteroids[i]
               IN IF a.id = frame'.miningTarget
                  THEN IF a.id \in AsteroidIds(asteroids')
                       THEN AsteroidById(asteroids', a.id).health = a.health - power
                       ELSE a.health - power <= 0
                  ELSE /\ a.id \in AsteroidIds(asteroids')
                       /\ AsteroidById(asteroids', a.id) = a
          /\ playerState'.currentFuel =
               fuel1 - idle - (IF frame'.laser THEN LaserCost(cfg) ELSE 0)]_vars

\* the laser hit the alien in a frame in which an asteroid was under the
\* cursor and in mining range
AlienHitOverAsteroid ==
  /\ gameState = "PLAYING"
  /\ frame.ran
  /\ frame.attackingAlien
  /\ frame.overlap
  /\ frame.miningTarget = 0

StolenAmount(sc, t) ==
  IF \E i \in 1..Len(sc) : sc[i].type = t
  THEN sc[CHOOSE i \in 1..Len(sc) : sc[i].type = t].amount
  ELSE 0

\* the ship as a frame leaves it: the state handed to onDock when the frame
\* docks, the playerState otherwise
ShipAfter == IF gameState' = "DOCKED" THEN finalState' ELSE playerState'

\* C16: in the frame that destroys the alien, for every mineral type of which
\* the alien holds stolen cargo (what it held before the frame and the unit
\* it stole in the frame) exactly one Loot of that type and that amount is
\* created at the alien's last position, no Loot of another type is
\* created, the Loot created is in the loot collection or collected by the
\* end of the frame, and the alien slot is empty after the frame.
AlienDropsStolenCargo ==
  [][(/\ frame'.ran
      /\ frame'.attackingAlien
      /\ (IF alien.exists THEN alien.hp ELSE ALIEN_HP)
           - playerState.shipConfig.miningPower <= 0) =>
       \E al0 \in (IF alien.exists THEN {alien}
                   ELSE {SpawnAlien(ShipAfter, a) : a \in SpawnAngles}) :
         LET last == AlienMove(al0, ShipAfter).alien
             held(t) == StolenAmount(al0.stolenCargo, t)
                          + (IF frame'.stolen = t THEN 1 ELSE 0)
             d == frame'.dropped
         IN /\ alien' = NoAlien
            /\ \A t \in MineralType :
                 held(t) > 0 =>
                   /\ Cardinality({i \in 1..Len(d) : d[i].type = t}) = 1
                   /\ \A i \in 1..Len(d) :
                        d[i].type = t =>
                          /\ d[i].amount = held(t)
                          /\ d[i].x = last.x
                          /\ d[i].y = last.y
                          /\ d[i].life = LOOT_DESPAWN_TIME
            /\ \A i \in 1..Len(d) : held(d[i].type) > 0
            /\ gameState' = "PLAYING" =>
                 /\ \A i \in 1..Len(d) :
                      d[i].id \in LootIds(loot') \cup frame'.collected
                 /\ LootIds(loot') \subseteq LootIds(loot) \cup LootIds(d)]_vars

\* the alien was destroyed while it held stolen cargo of two types
AlienDestroyedWithCargo ==
  /\ frame.ran
  /\ frame.attackingAlien
  /\ ~alien.exists
  /\ Len(frame.dropped) >= 2

\* C17: an asteroid of health 100 hit in consecutive frames at miningPower
\* 1.5 is in the collection, with health 100 - 1.5 n > 0, after each of the
\* first 66 hit-frames, which create no Loot and no debris; the 67th
\* hit-frame removes it, creates exactly one Loot of the asteroid's type with
\* amount floor(radius / 5) at the asteroid's position, and pushes 8 + 15
\* shatter particles (23 or, with the hit particle, 24 in all).
AsteroidDestroyedOnHit67 ==
  [][frame'.ran =>
       /\ frame'.count = frame.count + 1
       /\ frame'.miningTarget = 1
       /\ Len(asteroids) = 1
       /\ frame'.count <= 67
       /\ frame'.count <= 66 =>
            /\ Len(asteroids') = 1
            /\ asteroids'[1].id = 1
            /\ asteroids'[1].health = 200 - 3 * frame'.count
            /\ asteroids'[1].health > 0
            /\ frame'.dropped = <<>>
            /\ frame'.debris = 0
            /\ loot' = <<>>
       /\ frame'.count = 67 =>
            /\ asteroids' = <<>>
            /\ Len(frame'.dropped) = 1
            /\ frame'.dropped[1].type = asteroids[1].type
            /\ frame'.dropped[1].amount = asteroids[1].radius \div 5
            /\ frame'.dropped[1].x = asteroids[1].x
            /\ frame'.dropped[1].y = asteroids[1].y
            /\ frame'.debris = 8 + 15
            /\ frame'.sparks + frame'.debris >= 8 + 15
            /\ LootIds(loot') \cup frame'.collected = LootIds(frame'.dropped)]_vars

\* the 67th hit-frame has destroyed the asteroid and left its Loot
AsteroidGoneAfterHit67 ==
  /\ frame.ran
  /\ frame.count = 67
  /\ frame.miningTarget = 1
  /\ asteroids = <<>>
  /\ Len(frame.dropped) = 1
  /\ frame.sparks = 1

\* C18: a ship with fuel 1000 that neither thrusts nor mines loses exactly
\* one idle drain of 0.05 per frame: after n such frames its fuel is
\* 1000 - 0.05 n, after 1000 frames it is 950 (19000 units of 0.05), and in
\* all these frames the screen stays PLAYING with the loop scheduled: no
\* game-over callback has fired.
IdleThousandFrames ==
  [][frame'.ran =>
       /\ frame'.count = frame.count + 1
       /\ playerState'.currentFuel = playerState.currentFuel - RealFuelRate
       /\ playerState'.currentFuel = RealMaxFuel - frame'.count * RealFuelRate
       /\ frame'.count = 1000 => playerState'.currentFuel = 19000
       /\ gameState' = "PLAYING"
       /\ looping'
       /\ frame'.event = "none"]_vars

\* the ship after 1000 idle frames
IdleShipAfterThousandFrames ==
  /\ gameState = "PLAYING"
  /\ looping
  /\ frame.ran
  /\ frame.count = 1000
  /\ playerState.currentFuel = 19000

\* C19: refuel with fuelMissing = maxFuel - fuel and cost the least whole
\* number of credits >= 0.1 fuelMissing: if credits >= cost the fuel becomes
\* maxFuel and the credits drop by cost; otherwise floor(credits / 0.1) units
\* of fuel are added, which does not fill the tank, and the credits become 0
\* (credits 50, fuelMissing 1000: 500 units, credits 0); nothing else of the
\* player state changes.
RefuelFullOrPartial ==
  [][playerState' # playerState =>
       LET fuelMissing == playerState.shipConfig.maxFuel - playerState.currentFuel
           cost == CHOOSE c \in 0..fuelMissing :
                     10 * c >= fuelMissing /\ 10 * (c - 1) < fuelMissing
       IN /\ IF playerState.credits >= cost
             THEN /\ playerState'.currentFuel = playerState.shipConfig.maxFuel
                  /\ playerState'.credits = playerState.credits - cost
             ELSE /\ playerState'.currentFuel =
                       playerState.currentFuel + 10 * playerState.credits
                  /\ playerState'.currentFuel < playerState.shipConfig.maxFuel
                  /\ playerState'.credits = 0
          /\ (playerState.credits = 50 /\ fuelMissing = 1000) =>
               /\ playerState'.currentFuel = playerState.currentFuel + 500
               /\ playerState'.credits = 0
          /\ playerState' = [playerState EXCEPT
                               !.currentFuel = playerState'.currentFuel,
                               !.credits = playerState'.credits]]_vars

\* the partial refuel of the example: 50 credits bought 500 units of the
\* 1000 missing
RefuelHalfTank ==
  /\ gameState = "DOCKED"
  /\ playerState.shipConfig.maxFuel = 1000
  /\ playerState.currentFuel = 500
  /\ playerState.credits = 0
  /\ mission.credits = 50
  /\ mission.fuel = 0

\* C20: the speed cap of a frame, applied to the velocity v the thrust and
\* the drag leave: a v no faster than maxSpeed is kept as it is; a faster v
\* is rescaled to a velocity of magnitude at most maxSpeed that points the
\* same way (no component changes sign or grows), and of magnitude exactly
\* maxSpeed, parallel to v, wherever v * maxSpeed / speed comes out in whole
\* units; (10, 0) with maxSpeed 8 becomes (8, 0); and the ship's speed after
\* the frame is at most maxSpeed.
SpeedCapRescales ==
  [][frame'.ran =>
       LET v == frame'.precap
           w == ShipAfter.velocity
           ms == playerState.shipConfig.maxSpeed
           speed2 == v.x * v.x + v.y * v.y
           speed == FloorSqrt(speed2)
       IN /\ Speed2(ShipAfter) <= ms * ms
          /\ Speed2(playerState') <= ms * ms
          /\ speed2 <= ms * ms => w = v
          /\ speed2 > ms * ms =>
               /\ w.x * v.x >= 0 /\ w.y * v.y >= 0
               /\ Abs(w.x) <= Abs(v.x) /\ Abs(w.y) <= Abs(v.y)
               /\ (/\ speed * speed = speed2
                   /\ (v.x * ms) % speed = 0
                   /\ (v.y * ms) % speed = 0) =>
                    /\ Speed2(ShipAfter) = ms * ms
                    /\ w.x * v.y = w.y * v.x
          /\ (v = [x |-> 10, y |-> 0] /\ ms = 8) => w = [x |-> 8, y |-> 0]]_vars

\* the frame found the velocity (10, 0) and left (8, 0)
SpeedCappedFromTenToEight ==
  /\ frame.ran
  /\ frame.precap = [x |-> 10, y |-> 0]
  /\ playerState.shipConfig.maxSpeed = 8
  /\ playerState.velocity = [x |-> 8, y |-> 0]

\* C21: an upgrade of a stat at level n (the number of steps already applied
\* to it) costs floor(200 x 1.8^n): a step that changes the player state is
\* the purchase of one stat, made with credits >= that cost, which subtracts
\* exactly the cost and raises the stat by one step and nothing else, after
\* which the stat is at level n + 1 and its cost is strictly higher; and a
\* stat whose cost exceeds the credits is not changed by any step.
UpgradeGatedByCost ==
  [][/\ playerState' # playerState =>
          \E u \in Upgrades :
            LET level == StatLevel(playerState, u)
                cost == playerState.credits - playerState'.credits
            IN /\ cost * Pow(10, level) <= UPGRADE_COST_BASE * Pow(18, level)
               /\ (cost + 1) * Pow(10, level) > UPGRADE_COST_BASE * Pow(18, level)
               /\ playerState.credits >= cost
               /\ playerState'.credits >= 0
               /\ playerState' =
                    [playerState EXCEPT
                       !.credits = @ - cost,
                       !.shipConfig[u.stat] = @ + u.step]
               /\ StatLevel(playerState', u) = level + 1
               /\ calculateUpgradeCost(level + 1) > cost
     /\ \A u \in Upgrades :
          playerState.credits < calculateUpgradeCost(StatLevel(playerState, u)) =>
            playerState'.shipConfig[u.stat] = playerState.shipConfig[u.stat]]_vars

\* a stat was bought at level 2 for 648 credits and is at level 3
UpgradedToLevelThree ==
  /\ gameState = "DOCKED"
  /\ mission.credits = playerState.credits + 648
  /\ \E u \in Upgrades : StatLevel(playerState, u) = 3

LootAmountOf(items, ids, t) ==
  LET RECURSIVE Sum(_)
      Sum(i) == IF i = 0 THEN 0
                ELSE Sum(i - 1)
                       + (IF items[i].id \in ids /\ items[i].type = t
                          THEN items[i].amount ELSE 0)
  IN Sum(Len(items))

\* C22: a Loot within collection range for which the hold has no room
\* (cargo total + amount > maxCargo) is not collected: the frame reports
\* cargo full exactly when there is such a Loot, the cargo grows by the
\* amounts of the collected Loot only, and the refused Loot stays in the
\* collection, moved by its own velocity, with its type and full amount and
\* its life one lower (or leaves it when that life runs out); no Loot is
\* split: the Loot of the collection are Loot that existed, one each.
CargoFullLeavesLoot ==
  [][(gameState = "PLAYING" /\ gameState' = "PLAYING" /\ frame'.ran) =>
       LET before == loot \o frame'.dropped
           ship == playerState'
           near(l) == Dist2(ship.position.x, ship.position.y, l.x + l.vx, l.y + l.vy)
                        < LOOT_COLLECTION_RANGE * LOOT_COLLECTION_RANGE
           refused == {i \in 1..Len(before) :
                         near(before[i]) /\ before[i].id \notin frame'.collected}
       IN /\ frame'.cargoFull <=> refused # {}
          /\ \A i \in 1..Len(before) :
               before[i].id \in frame'.collected => near(before[i])
          /\ \A i \in refused :
               LET l == before[i]
               IN /\ CargoTotal(ship.cargo) + l.amount > ship.shipConfig.maxCargo
                  /\ IF l.life > 1
                     THEN \E j \in 1..Len(loot') :
                            loot'[j] = [l EXCEPT !.x = l.x + l.vx, !.y = l.y + l.vy,
                                                 !.vx = Trunc(l.vx * 95, 100),
                                                 !.vy = Trunc(l.vy * 95, 100),
                                                 !.life = l.life - 1]
                     ELSE l.id \notin LootIds(loot')
          /\ \A t \in MineralType :
               ship.cargo[t] = playerState.cargo[t]
                                 - (IF frame'.stolen = t THEN 1 ELSE 0)
                                 + LootAmountOf(before, frame'.collected, t)
          /\ LootIds(loot') \subseteq LootIds(before)
          /\ Cardinality(LootIds(loot')) = Len(loot')
          /\ \A j \in 1..Len(loot') : \E i \in 1..Len(before) :
               /\ before[i].id = loot'[j].id
               /\ before[i].amount = loot'[j].amount
               /\ before[i].type = loot'[j].type]_vars

\* a Loot in range was refused by a hold that still had some space, and is
\* still floating
CargoFullLootLeft ==
  /\ gameState = "PLAYING"
  /\ frame.ran
  /\ frame.cargoFull
  /\ CargoTotal(playerState.cargo) < playerState.shipConfig.maxCargo
  /\ \E j \in 1..Len(loot) :
       Dist2(playerState.position.x, playerState.position.y, loot[j].x, loot[j].y)
         < LOOT_COLLECTION_RANGE * LOOT_COLLECTION_RANGE

\* C23: a start of a continuous cue that finds the cue playing creates no
\* audio node and leaves every node and field as it was; a call creates at
\* most one node; and the sources of a cue that are started and not handed
\* to a stop's timer are exactly the ones the manager's fields refer to, at
\* most one per cue.
StartWhilePlayingIsIdle ==
  [][\A c \in Cues :
       /\ sound'.last = <<"start", c, TRUE>> =>
            /\ sound.cue[c].ref # {}
            /\ sound'.cue = sound.cue
       /\ sound'.cue[c].made <= sound.cue[c].made + 1
       /\ sound'.cue[c].live \ sound'.cue[c].timers = sound'.cue[c].ref
       /\ Cardinality(sound'.cue[c].ref) <= 1]_vars

\* startThrust was called while the thrust cue, started after a stop whose
\* timer is still pending, was playing
ThrustStartedTwice ==
  /\ sound.last = <<"start", "thrust", TRUE>>
  /\ sound.cue["thrust"].ref = {2}
  /\ sound.cue["thrust"].timers = {1}
  /\ sound.cue["thrust"].live = {1, 2}

\* C24: the frame that calls onDock or onGameOver leaves no callback of the
\* loop pending and leaves PLAYING; on every screen other than PLAYING no
\* callback is pending, and a step that starts there runs no frame and
\* schedules the loop only by entering PLAYING.
LoopReleasedOffPlaying ==
  [][/\ frame'.event = "dock" =>
          (frame'.ran /\ gameState' = "DOCKED" /\ ~looping')
     /\ frame'.event = "gameover" =>
          (frame'.ran /\ gameState' = "GAMEOVER" /\ ~looping')
     /\ gameState' # "PLAYING" => ~looping'
     /\ gameState # "PLAYING" =>
          /\ ~looping
          /\ ~frame'.ran
          /\ looping' => gameState' = "PLAYING"]_vars

\* the loop was released by a dock, started again by a launch and released
\* again by the game over
ReleasedTwice ==
  /\ gameState = "GAMEOVER"
  /\ frame.event = "gameover"
  /\ launches >= 1
  /\ ~looping

\* C26 (as stated): the Rendering section of a frame changes nothing but the
\* asteroids' heating flags and the shake, which it decays.
RenderOnlyClearsHeatingAndShake ==
  [][(effects.on /\ frame'.rendered) =>
       /\ effects'.particles = frame'.scene.fx.particles
       /\ effects'.turns = frame'.scene.fx.turns
       /\ effects'.shake = ShakeDecay(frame'.scene.fx).shake]_vars

\* C26: in a frame that renders, the shake decays first, and the physics,
\* alien, combat and loot steps, with every particle they create, are done
\* when the Rendering section begins; the Rendering section leaves the ship,
\* the asteroids' health, the alien, the Loot and the shake as they are,
\* clears every heating flag, rotates the asteroids once, and ages every
\* particle by one, dropping those whose life has run out.
RenderAfterLogic ==
  [][(effects.on /\ frame'.rendered) =>
       LET sc == frame'.scene
           old == sc.fx.particles
           keep == {k \in 1..Len(old) : old[k] > 1}
           target == frame'.miningTarget
       IN /\ playerState' = sc.ship
          /\ asteroids' = sc.asteroids
          /\ alien' = sc.alien
          /\ loot' = sc.loot
          /\ effects'.shake = sc.fx.shake
          /\ ~frame'.laser => sc.fx.shake = ShakeDecay(effects).shake
          /\ frame'.laser => sc.fx.shake >= 200
          /\ Len(old) = Len(effects.particles)
                          + (IF frame'.thrusting THEN 1 ELSE 0)
                          + (IF frame'.stolen # "none" THEN 1 ELSE 0)
                          + frame'.sparks + frame'.debris
                          + Cardinality(frame'.collected)
          /\ \A k \in 1..Len(effects.particles) : old[k] = effects.particles[k]
          /\ sc.fx.heating = (IF target \in AsteroidIds(asteroids') THEN {target} ELSE {})
          /\ effects'.heating = {}
          /\ sc.fx.turns = effects.turns
          /\ effects'.turns = effects.turns + 1
          /\ Len(effects'.particles) = Cardinality(keep)
          /\ \A i \in 1..Len(effects'.particles) :
               \E k \in keep : /\ effects'.particles[i] = old[k] - 1
                               /\ Cardinality({j \in keep : j < k}) = i - 1]_vars

\* a frame that thrust and heated an asteroid on a shaking screen has
\* rendered: the flag is cleared, a particle of an earlier frame has expired
\* and the exhaust particle of this frame has aged
RenderedHeatedAsteroid ==
  /\ effects.on
  /\ frame.rendered
  /\ frame.thrusting
  /\ frame.scene.fx.heating = {1}
  /\ effects.heating = {}
  /\ frame.scene.fx.shake > 0
  /\ Len(effects.particles) < Len(frame.scene.fx.particles)
  /\ \E i \in 1..Len(effects.particles) : effects.particles[i] = 19

\* C25: a step that enters PLAYING (start, launch or restart) leaves the
\* loop scheduled on a fresh world: no Loot, no particle, no alien, no shake,
\* no heating flag, and the full count of asteroids, each of full health and
\* of its own identity.
MissionStartsFresh ==
  [][(gameState # "PLAYING" /\ gameState' = "PLAYING") =>
       /\ looping'
       /\ ~frame'.ran
       /\ loot' = <<>>
       /\ lootSerial' = 0
       /\ ~alien'.exists
       /\ effects'.particles = <<>>
       /\ effects'.shake = 0
       /\ effects'.heating = {}
       /\ effects'.turns = 0
       /\ Len(asteroids') = NumAsteroids
       /\ Cardinality(AsteroidIds(asteroids')) = NumAsteroids
       /\ \A i \in 1..Len(asteroids') :
            /\ asteroids'[i].health = AsteroidHealth
            /\ asteroids'[i].maxHealth = AsteroidHealth]_vars

\* launched with cargo on board: an asteroid of the mission before was
\* shattered and its Loot collected, and the field is whole again
LaunchedAfterMining ==
  /\ gameState = "PLAYING"
  /\ ~frame.ran
  /\ launches >= 1
  /\ CargoTotal(playerState.cargo) > 0
  /\ effects = NoEffects(TRUE)
  /\ loot = <<>>
  /\ Len(asteroids) = NumAsteroids

\* C27: under fair scheduling of the frames every mission ends: from every
\* state on the PLAYING screen a dock or a game over follows; a frame that
\* starts with fuel in the tank ends with less; and a frame that starts with
\* an empty tank does not thrust and leaves neither component of the
\* velocity larger than it was.
MissionEventuallyEnds ==
  /\ (gameState = "PLAYING") ~> (gameState \in {"DOCKED", "GAMEOVER"})
  /\ [][frame'.ran =>
          /\ playerState.currentFuel > 0 =>
               ShipAfter.currentFuel < playerState.currentFuel
          /\ playerState.currentFuel <= 0 =>
               /\ ~frame'.thrusting
               /\ Abs(frame'.precap.x) <= Abs(playerState.velocity.x)
               /\ Abs(frame'.precap.y) <= Abs(playerState.velocity.y)
               /\ ShipAfter.currentFuel = playerState.currentFuel]_vars

\* a mission in which the laser was fired has ended with the tank empty and
\* the ship at rest
MissionEndedDry ==
  /\ gameState = "GAMEOVER"
  /\ frame.event = "gameover"
  /\ mission.fired
  /\ playerState.currentFuel <= 0
  /\ Speed2(playerState) = 0

\* C28: a frame thrusts exactly when the thrust key is held and the tank
\* holds fuel as the frame begins; a frame that thrusts adds the acceleration
\* along the heading to the velocity before the drag and takes
\* thrustConsumptionRate from the tank; a frame that does not, the key held
\* or not, applies the drag alone to the velocity and takes only the idle and
\* laser consumption, none of them with the tank empty.
ThrustOnlyWithFuel ==
  [][frame'.ran =>
       LET cfg == playerState.shipConfig
           fuel == playerState.currentFuel
           burn == IF frame'.thrusting THEN cfg.thrustConsumptionRate ELSE 0
           idle == IF fuel - burn > 0 THEN cfg.fuelConsumptionRate ELSE 0
           shot == IF frame'.laser THEN LaserCost(cfg) ELSE 0
       IN /\ frame'.thrusting <=> (frame'.thrustKey /\ fuel > 0)
          /\ frame'.thrusting =>
               /\ frame'.precap.x =
                    Drag(playerState.velocity.x + Cos(ShipAfter.rotation) * cfg.acceleration)
               /\ frame'.precap.y =
                    Drag(playerState.velocity.y + Sin(ShipAfter.rotation) * cfg.acceleration)
          /\ ~frame'.thrusting =>
               /\ frame'.precap.x = Drag(playerState.velocity.x)
               /\ frame'.precap.y = Drag(playerState.velocity.y)
          /\ ShipAfter.currentFuel = fuel - burn - idle - shot
          /\ fuel <= 0 => ShipAfter.currentFuel = fuel]_vars

\* the thrust key was held through a frame on an empty tank while the ship
\* was still coasting
ThrustKeyOnEmptyTank ==
  /\ gameState = "PLAYING"
  /\ frame.ran
  /\ frame.thrustKey
  /\ ~frame.thrusting
  /\ playerState.currentFuel <= 0
  /\ Speed2(playerState) > 0

\* C29: in a frame in which the mouse button is not held, or the fuel left
\* after the frame's thrust and idle consumption is not above 0, the laser
\* does nothing: no asteroid and no alien is hit, no health and no hp is
\* taken, nothing is destroyed or dropped, and the fuel the frame ends with
\* is the fuel left after thrust and idle consumption.
LaserNeedsButtonAndFuel ==
  [][frame'.ran =>
       LET cfg == playerState.shipConfig
           f1 == playerState.currentFuel
                   - (IF frame'.thrusting THEN cfg.thrustConsumptionRate ELSE 0)
           f2 == f1 - (IF f1 > 0 THEN cfg.fuelConsumptionRate ELSE 0)
       IN (~frame'.mouseDown \/ f2 <= 0) =>
            /\ ~frame'.laser
            /\ ~frame'.attackingAlien
            /\ frame'.miningTarget = 0
            /\ frame'.dropped = <<>>
            /\ frame'.debris = 0
            /\ ShipAfter.currentFuel = f2
            /\ gameState' = "PLAYING" =>
                 /\ asteroids' = asteroids
                 /\ alien.exists => (alien'.exists /\ alien'.hp = alien.hp)]_vars

\* the button was held through a frame on an empty tank, the alien within
\* reach, and the laser stayed off
ButtonHeldOnEmptyTank ==
  /\ gameState = "PLAYING"
  /\ frame.ran
  /\ frame.mouseDown
  /\ ~frame.laser
  /\ playerState.currentFuel <= 0
  /\ alien.exists
  /\ Len(asteroids) = NumAsteroids

\* C30: the alien is CHASING or DRAINING and nothing else, and after a frame
\* that leaves it alive it is CHASING exactly when its distance to the ship,
\* taken from the ship after the frame's physics to the alien before its
\* move (the spawn point, for an alien spawned in the frame), is above seven
\* tenths of DRAIN_RANGE.
AlienStateFollowsDistance ==
  [][(frame'.ran /\ gameState' = "PLAYING" /\ alien'.exists) =>
       \E before \in (IF alien.exists THEN {alien}
                      ELSE {SpawnAlien(playerState', a) : a \in SpawnAngles}) :
         LET d2 == Dist2(playerState'.position.x, playerState'.position.y,
                         before.x, before.y)
         IN /\ alien'.state \in {"CHASING", "DRAINING"}
            /\ alien'.state = "CHASING" <=> 100 * d2 > 49 * DRAIN_RANGE * DRAIN_RANGE
            /\ alien'.state = "DRAINING" <=> 10 * 10 * d2 <= 7 * 7 * DRAIN_RANGE * DRAIN_RANGE]_vars

\* the alien, spawned CHASING, has been DRAINING long enough to run its
\* drain timer and is CHASING again
AlienChasingAgain ==
  /\ gameState = "PLAYING"
  /\ frame.ran
  /\ alien.exists
  /\ alien.state = "CHASING"
  /\ alien.drainTimer > 0

\* ------------------------------------------------------------ approach
\* a ship on its way back to the station, on the station's axis and closing
\* in, with the last of its fuel in the tank
InitApproach ==
  /\ gameState = "PLAYING"
  /\ \E y \in {LaunchOffset, LaunchOffset + 1}, vy \in {LaunchPush, LaunchPush + 1},
        rot \in {1, 3}, f \in 1..4 :
       playerState =
         [InitialPlayerState EXCEPT
            !.currentFuel = f,
            !.position = [x |-> STATION_POSITION.x, y |-> STATION_POSITION.y + y],
            !.velocity = [x |-> 0, y |-> -vy],
            !.rotation = rot]
  /\ asteroids = GenerateAsteroids
  /\ alien = NoAlien
  /\ loot = <<>>
  /\ lootSerial = 0
  /\ looping = TRUE
  /\ frame = NoFrame
  /\ finalState = NoState
  /\ mission = BeginMission(playerState)
  /\ launches = 0
  /\ sound = NewSoundManager(FALSE)
  /\ effects = NoEffects(FALSE)

NextApproach ==
  \/ handleLaunch
  \/ handleRestart
  \/ FlightFrame

SpecApproach == InitApproach /\ [][NextApproach]_vars

\* --------------------------------------------------------------- trade
\* the station with a ship that has flown before: some credits, some fuel
\* left, something or nothing in the hold
InitTrade ==
  /\ gameState = "DOCKED"
  /\ \E cr \in {0, 1, 199, 200}, f \in {0, InitMaxFuel},
        hold \in {EmptyCargo, [EmptyCargo EXCEPT !["Gold"] = 2]} :
       playerState =
         [Docked(InitialPlayerState) EXCEPT
            !.credits = cr, !.currentFuel = f, !.cargo = hold]
  /\ asteroids = GenerateAsteroids
  /\ alien = NoAlien
  /\ loot = <<>>
  /\ lootSerial = 0
  /\ looping = FALSE
  /\ frame = NoFrame
  /\ finalState = NoState
  /\ mission = BeginMission(playerState)
  /\ launches = 0
  /\ sound = NewSoundManager(FALSE)
  /\ effects = NoEffects(FALSE)

\* a frame of a flight along the station's axis: the nose stays turned to
\* the station, the pilot thrusts or coasts, nothing is met
TradeFrame ==
  /\ LoopWith(Keys)
  /\ ~alien'.exists
  /\ ~frame'.laser

\* shop operations and flights in any order
NextTrade ==
  \/ sellAll
  \/ refuel
  \/ upgrade
  \/ handleLaunch
  \/ handleRestart
  \/ TradeFrame

SpecTrade == InitTrade /\ [][NextTrade]_vars

\* C31: the drain counter goes up by one in the frames that leave the alien
\* DRAINING and in no other; the theft attempt is made in the frame the
\* counter reaches DRAIN_INTERVAL, and the counter is back at 0 after that
\* frame, also when the hold was empty and nothing was stolen; between frames
\* the counter is in 0..DRAIN_INTERVAL-1, and an attempt never follows an
\* attempt in the next frame
DrainCounterCycle ==
  /\ [](alien.exists => alien.drainTimer \in 0..(DRAIN_INTERVAL - 1))
  /\ [][(gameState = "PLAYING" /\ frame'.ran) =>
         /\ frame'.drainTick =>
              /\ alien.exists
              /\ alien.drainTimer + 1 = DRAIN_INTERVAL
              /\ alien'.exists => alien'.drainTimer = 0
              /\ ~frame.drainTick
         /\ frame'.stolen # "none" => frame'.drainTick
         /\ (frame'.drainTick /\ frame'.stolen = "none") =>
              CargoTotal(playerState.cargo) = 0
         /\ (alien.exists /\ alien'.exists) =>
              IF alien'.state = "DRAINING"
              THEN /\ alien'.drainTimer = (alien.drainTimer + 1) % DRAIN_INTERVAL
                   /\ frame'.drainTick <=> alien'.drainTimer = 0
              ELSE /\ alien'.drainTimer = alien.drainTimer
                   /\ ~frame'.drainTick]_vars

\* an attempt on an empty hold: nothing stolen, the counter reset all the same
DrainedEmptyHold ==
  /\ gameState = "PLAYING"
  /\ frame.drainTick
  /\ frame.stolen = "none"
  /\ alien.exists
  /\ alien.drainTimer = 0
  /\ CargoTotal(playerState.cargo) = 0

\* C32: a theft moves exactly one unit of one mineral type: apart from the
\* Loot collected in the same frame, the ship's count of that type is one
\* lower and its other counts are as before; the alien's stolenCargo holds one
\* more of that type and the same of every other (if the alien is destroyed in
\* that frame, the Loot it drops carries these amounts); the ship's cargo
\* total and the alien's stolen total together are unchanged by the theft
TheftMovesOneUnit ==
  [][(gameState = "PLAYING" /\ frame'.ran /\ frame'.stolen # "none") =>
       LET t == frame'.stolen
           before == loot \o frame'.dropped
           one(u) == IF u = t THEN 1 ELSE 0
           gained(u) == LootAmountOf(before, frame'.collected, u)
           held(u) == StolenAmount(alien.stolenCargo, u)
           d == frame'.dropped
       IN /\ alien.exists
          /\ playerState.cargo[t] > 0
          /\ \A u \in MineralType :
               ShipAfter.cargo[u] = playerState.cargo[u] - one(u) + gained(u)
          /\ alien'.exists =>
               /\ \A u \in MineralType :
                    StolenAmount(alien'.stolenCargo, u) = held(u) + one(u)
               /\ CargoTotal(ShipAfter.cargo) + StolenTotal(alien')
                    = CargoTotal(playerState.cargo) + StolenTotal(alien)
                        + CargoTotal([u \in MineralType |-> gained(u)])
          /\ (~alien'.exists /\ gameState' = "PLAYING") =>
               \A u \in MineralType :
                 LootAmountOf(d, LootIds(d), u) = held(u) + one(u)]_vars

\* the alien holds two units of one type and one of another, taken from the
\* ship one at a time
StoleThreeUnits ==
  /\ gameState = "PLAYING"
  /\ frame.stolen # "none"
  /\ alien.exists
  /\ Len(alien.stolenCargo) = 2
  /\ StolenTotal(alien) = 3

\* C33: there is one alien slot, and a frame fills it only if it was empty
\* when the frame began: an alien found after a frame that began with an
\* alien is that alien after its update, and an alien found after a frame
\* that began without one is a new alien after its first update, spawned with
\* zero velocity, hp = maxHp = ALIEN_HP, empty stolenCargo, state CHASING and
\* drain counter 0
SpawnOnlyIntoEmptySlot ==
  [][(gameState = "PLAYING" /\ frame'.ran /\ alien'.exists) =>
       \E a \in SpawnAngles :
         LET new == [exists |-> TRUE,
                     x |-> ShipAfter.position.x + Cos(a) * SpawnDist,
                     y |-> ShipAfter.position.y + Sin(a) * SpawnDist,
                     vx |-> 0, vy |-> 0, hp |-> ALIEN_HP, maxHp |-> ALIEN_HP,
                     stolenCargo |-> <<>>, state |-> "CHASING", drainTimer |-> 0]
             al0 == IF alien.exists THEN alien ELSE new
             mv == AlienMove(al0, ShipAfter).alien
         IN /\ alien'.maxHp = ALIEN_HP
            /\ alien' = [mv EXCEPT
                           !.hp = IF frame'.attackingAlien
                                  THEN @ - playerState.shipConfig.miningPower
                                  ELSE @,
                           !.stolenCargo = IF frame'.stolen # "none"
                                           THEN AddStolen(@, frame'.stolen)
                                           ELSE @]
            /\ ~alien.exists =>
                 /\ alien'.stolenCargo = <<>>
                 /\ alien'.drainTimer = 0
                 /\ alien'.state = "CHASING"]_vars

\* a second alien of the mission: the hold was robbed by an alien that is
\* gone, and the alien now in the slot is untouched and has stolen nothing
SecondAlienOfMission ==
  /\ gameState = "PLAYING"
  /\ frame.ran
  /\ mission.robbed
  /\ alien.exists
  /\ alien.hp = ALIEN_HP
  /\ alien.stolenCargo = <<>>
  /\ alien.state = "CHASING"
  /\ alien.drainTimer = 0

\* C34: a release timer of a stop acts on the nodes it captured and on no
\* others: when it fires, the nodes the manager refers to (those of a start
\* made since the stop) are not the ones it stops, the manager's fields are
\* as they were, and the referenced nodes are still playing; at all times the
\* nodes referred to are playing and no pending timer holds them
StaleTimerSparesRestart ==
  /\ [](\A c \in Cues :
         /\ sound.cue[c].ref \subseteq sound.cue[c].live
         /\ sound.cue[c].ref \cap sound.cue[c].timers = {})
  /\ [][\A c \in Cues :
         (sound'.last[1] = "timer" /\ sound'.last[2] = c) =>
           /\ sound'.last[3] = FALSE
           /\ sound'.cue[c].ref = sound.cue[c].ref
           /\ sound'.cue[c].ref \subseteq sound'.cue[c].live
           /\ Cardinality(sound.cue[c].live \ sound'.cue[c].live) = 1
           /\ sound.cue[c].live \ sound'.cue[c].live \subseteq sound.cue[c].timers]_vars

\* the laser cue stopped and started again, and the timer of the stop has
\* fired since: the second instance alone is playing and referenced
LaserRestartOutlivedTimer ==
  /\ sound.last = <<"timer", "laser", FALSE>>
  /\ sound.cue["laser"].ref = {2}
  /\ sound.cue["laser"].live = {2}
  /\ sound.cue["laser"].timers = {}

\* C35: a frame calls onGameOver exactly if, after its physics, the tank is
\* empty and the ship at rest, whether or not the ship is then within docking
\* range and slow enough to dock; it calls onDock exactly if that is not so
\* and the docking condition holds; a frame that calls one of them is the
\* last frame of its mission, so that a mission sees one callback at most
OneTerminalCallback ==
  /\ [](frame.event # "none" => (gameState # "PLAYING" /\ ~looping))
  /\ [][(gameState = "PLAYING" /\ frame'.ran) =>
         LET fuel1 == playerState.currentFuel
                        - (IF frame'.thrusting
                           THEN playerState.shipConfig.thrustConsumptionRate
                           ELSE 0)
             v == frame'.precap
             over == /\ fuel1 <= 0
                     /\ Abs(v.x) < StopSpeed
                     /\ Abs(v.y) < StopSpeed
             dock == DockingCheck(ShipAfter, v.x * v.x + v.y * v.y)
         IN /\ frame.event = "none"
            /\ frame'.event \in {"none", "dock", "gameover"}
            /\ frame'.event = "gameover" <=> over
            /\ frame'.event = "dock" <=> (~over /\ dock)
            /\ gameState' = "GAMEOVER" <=> frame'.event = "gameover"
            /\ gameState' = "DOCKED" <=> frame'.event = "dock"
            /\ frame'.event = "gameover" => finalState' = finalState
            /\ frame'.event = "dock" => finalState' # finalState]_vars

\* the tank ran dry as the ship came to rest inside the docking range: the
\* game is over and the ship was never handed to the dock
GameOverAtTheStation ==
  /\ gameState = "GAMEOVER"
  /\ frame.event = "gameover"
  /\ finalState = NoState
  /\ DockingCheck(playerState, Speed2(playerState))

\* C36: whatever shop operations (sell all, refuel in full or in part,
\* upgrades) and flights have taken place, in whatever order, the credits are
\* not negative
CreditsNeverNegative == playerState.credits >= 0

\* a partial refuel took the last credit: the tank rose without filling up
SpentLastCreditOnFuel ==
  /\ gameState = "DOCKED"
  /\ playerState.credits = 0
  /\ mission.credits > 0
  /\ playerState.currentFuel > mission.fuel
  /\ playerState.currentFuel < playerState.shipConfig.maxFuel

\* C37: selling the hold changes the credits and the cargo and nothing else:
\* the credits rise by the sum over the mineral types of count times value,
\* every cargo count becomes 0, and the fuel and the ship configuration stay
\* as they were
SellAllChangesOnlyCreditsAndCargo ==
  [][(/\ gameState = "DOCKED"
      /\ gameState' = "DOCKED"
      /\ CargoTotal(playerState.cargo) > 0
      /\ CargoTotal(playerState'.cargo) = 0) =>
       LET totalValue ==
             playerState.cargo["Iron"] * MINERAL_VALUES["Iron"]
             + playerState.cargo["Silicon"] * MINERAL_VALUES["Silicon"]
             + playerState.cargo["Gold"] * MINERAL_VALUES["Gold"]
             + playerState.cargo["Kronos Crystal"] * MINERAL_VALUES["Kronos Crystal"]
       IN /\ playerState'.credits = playerState.credits + totalValue
          /\ playerState'.cargo = EmptyCargo
          /\ playerState'.currentFuel = playerState.currentFuel
          /\ playerState'.shipConfig = playerState.shipConfig]_vars

\* C38: whatever flights and shop operations (refuel in full or in part,
\* sell all, fuel-cell and other upgrades, restart) have taken place, the
\* fuel in the tank is not above shipConfig.maxFuel
FuelWithinTank == playerState.currentFuel <= playerState.shipConfig.maxFuel

\* a tank enlarged by the fuel-cell upgrade and filled to its new size
EnlargedTankFull ==
  /\ gameState = "DOCKED"
  /\ playerState.shipConfig.maxFuel > INITIAL_SHIP_CONFIG.maxFuel
  /\ playerState.currentFuel = playerState.shipConfig.maxFuel

\* C39: between frames the sound manager holds the alien-hum nodes exactly
\* if there is an alien: the hum is started in the frame that spawns the
\* alien, stopped in the frame that destroys it, and stopped with the game
\* over, the dock and the unmounting of the canvas, so that it never sounds
\* off the PLAYING screen
HumFollowsAlien ==
  /\ sound.cue["hum"].ref # {} <=> alien.exists
  /\ gameState # "PLAYING" => sound.cue["hum"].ref = {}

\* the alien has just been shot to pieces and its hum has been stopped
HumStoppedWithAlien ==
  /\ gameState = "PLAYING"
  /\ frame.attackingAlien
  /\ ~alien.exists
  /\ sound.cue["hum"].ref = {}
  /\ sound.cue["laser"].ref # {}

====
